---- MODULE Spec2Model ----
(***************************************************************************)
(* Model of the buildworker build server (package buildworker and the      *)
(* HTTP command): request handlers that open a BuildEnv (temporary GOPATH  *)
(* provisioned from the master GOPATH), build or deploy, and close it,     *)
(* coordinated by the per-GOPATH reader-writer locks of builder.go.        *)
(***************************************************************************)
EXTENDS Integers, Sequences, FiniteSets, TLC

\* ------------------------------------------------------------------------
\* Bounds of the model
\* ------------------------------------------------------------------------
NumHandlers == 2      \* request handlers (goroutines) serving concurrently
NumNames == 2         \* distinct names ioutil.TempDir can generate per prefix

Handlers == 1..NumHandlers
Names == 1..NumNames

\* ------------------------------------------------------------------------
\* Program constants and configuration
\* ------------------------------------------------------------------------
CaddyPackage == "github.com/mholt/caddy"
PluginPackage == "example.com/plug"
Pkgs == {CaddyPackage, PluginPackage}

\* Platform{OS: os, Arch: arch, ARM: arm, Cgo: cgo}, and the literal
\* without Cgo (its zero value is false)
PlatformCgo(os, arch, arm, cgo) == [OS |-> os, Arch |-> arch, ARM |-> arm, Cgo |-> cgo]
Platform(os, arch, arm) == PlatformCgo(os, arch, arm, FALSE)

\* values the -uid flag can take: -1 (no change of ownership) or a uid
UidGidValues == {0 - 1, 1000}

\* ------------------------------------------------------------------------
\* File trees.  A path is a sequence of names relative to a GOPATH root; a
\* name is a sequence of tokens so that prefix and suffix tests are computed.
\* A tree is a function from the paths that exist to their data: 0 for a
\* directory, the revision (0 = as first fetched, h = written by handler
\* h's `go get -u`) for a file.
\* ------------------------------------------------------------------------
nSrc == <<"src">>
nCaddy == <<"caddy">>
nPlug == <<"plug">>
nGit == <<".", "git">>
nHead == <<"HEAD">>
nRunGo == <<"run", ".go">>
nRunTest == <<"run", "_test.go">>
nTestdata == <<"testdata">>
nInTxt == <<"in", ".txt">>
nLink == <<"ln">>
nPGo == <<"p", ".go">>

CaddyDir == <<nSrc, nCaddy>>
PlugDir == <<nSrc, nPlug>>

CaddyPaths ==
    { CaddyDir, CaddyDir \o <<nGit>>, CaddyDir \o <<nGit, nHead>>,
      CaddyDir \o <<nRunGo>>, CaddyDir \o <<nRunTest>>,
      CaddyDir \o <<nTestdata>>, CaddyDir \o <<nTestdata, nInTxt>>,
      CaddyDir \o <<nLink>> }
PlugPaths ==
    { PlugDir, PlugDir \o <<nGit>>, PlugDir \o <<nGit, nHead>>,
      PlugDir \o <<nPGo>> }
Paths == {<<>>, <<nSrc>>} \cup CaddyPaths \cup PlugPaths

DirPaths ==
    { <<>>, <<nSrc>>, CaddyDir, CaddyDir \o <<nGit>>, CaddyDir \o <<nTestdata>>,
      PlugDir, PlugDir \o <<nGit>> }
LinkPaths == { CaddyDir \o <<nLink>> }

IsDir(p) == p \in DirPaths
IsSymlink(p) == p \in LinkPaths
PkgPaths(pkg) == IF pkg = CaddyPackage THEN CaddyPaths ELSE PlugPaths
PkgDir(pkg) == IF pkg = CaddyPackage THEN CaddyDir ELSE PlugDir

EmptyTree == [p \in {<<>>} |-> 0]

IsPrefix(p, q) == Len(p) <= Len(q) /\ SubSeq(q, 1, Len(p)) = p
Children(t, p) == { q \in DOMAIN t : Len(q) = Len(p) + 1 /\ IsPrefix(p, q) }

\* info.Name() of an entry; rootName is the base name of the walked root
BaseName(p, rootName) == IF p = <<>> THEN rootName ELSE p[Len(p)]
HasDotPrefix(n) == Len(n) > 0 /\ n[1] = "."
HasTestSuffix(n) == Len(n) > 0 /\ n[Len(n)] = "_test.go"

\* Variant of SkipEntry: the rule for hidden names is applied to files only
SkipEntryHiddenFiles(t, cfg, p, rootName) ==
    LET name == BaseName(p, rootName) IN
    \/ name = <<>>
    \/ cfg.SkipSymLinks /\ IsSymlink(p)
    \/ cfg.SkipHidden /\ HasDotPrefix(name) /\ ~IsDir(p)
    \/ cfg.SkipTestFiles /\ IsDir(p) /\ name = nTestdata
    \/ cfg.SkipTestFiles /\ ~IsDir(p) /\ HasTestSuffix(name)

\* Whether the walk function of deepCopy leaves entry p uncopied
SkipEntry(t, cfg, p, rootName) ==
    LET name == BaseName(p, rootName) IN
    \/ name = <<>>
    \/ cfg.SkipSymLinks /\ IsSymlink(p)
    \/ cfg.SkipHidden /\ HasDotPrefix(name)
    \/ cfg.SkipTestFiles /\ IsDir(p) /\ name = nTestdata
    \/ cfg.SkipTestFiles /\ ~IsDir(p) /\ HasTestSuffix(name)

\* filepath.Walk from p: the entries that deepCopy copies at or below p.
\* Every skipped directory returns SkipDir, so nothing below it is visited.
RECURSIVE Walk(_, _, _, _)
Walk(t, cfg, p, rootName) ==
    IF SkipEntry(t, cfg, p, rootName) THEN {}
    ELSE {p} \cup UNION { Walk(t, cfg, q, rootName) : q \in Children(t, p) }

\* deepCopy of tree src onto tree dest: copied entries overwrite, the rest
\* of dest stays
deepCopy(src, dest, cfg, rootName) ==
    LET copied == Walk(src, cfg, <<>>, rootName) IN
    [p \in (DOMAIN dest) \cup copied |-> IF p \in copied THEN src[p] ELSE dest[p]]

\* The flags of the positional calls deepCopy(src, dest, false, false, true)
CopyFlags ==
    [SkipHidden |-> FALSE, SkipSymLinks |-> FALSE, SkipTestFiles |-> TRUE,
     PreserveOwner |-> FALSE]

nMaster == <<"gopath">>
nBackup == <<"gopath_backup_">>

\* `go get -d -t` (no -u) of pkgs in the master GOPATH: fetches the missing
\* packages and leaves the sources that exist as they are
PkgPresent(t, pkg) == PkgDir(pkg) \in DOMAIN t
Filled(t, pkgs) ==
    LET missing == UNION { PkgPaths(pkg) : pkg \in { q \in pkgs : ~PkgPresent(t, q) } } IN
    [p \in (DOMAIN t) \cup missing \cup {<<nSrc>>} |-> IF p \in DOMAIN t THEN t[p] ELSE 0]

\* `go get -u -d -t` of pkg in the master GOPATH run by handler h: the
\* package's files are brought to the revision that h fetched
Updated(t, pkg, h) ==
    [p \in (DOMAIN t) \cup PkgPaths(pkg) \cup {<<nSrc>>} |->
        IF p \in PkgPaths(pkg) /\ ~IsDir(p) THEN h
        ELSE IF p \in DOMAIN t THEN t[p] ELSE 0]

InitialMaster == [p \in {<<>>, <<nSrc>>} \cup CaddyPaths |-> 0]

\* ------------------------------------------------------------------------
\* State
\* ------------------------------------------------------------------------
VARIABLES
    UidGid,        \* the -uid flag
    crashed,       \* the process died of a Go runtime fatal error
    gopathLocks,   \* the lock table entry of the master GOPATH: 0 = no entry,
                   \* m = the RWMutex allocated by handler m
    mu,            \* the RWMutex objects: writer flag and reader count
    master,        \* tree of the master GOPATH
    ws,            \* temporary GOPATHs on disk: name -> exists, packages provisioned
    bk,            \* GOPATH backups on disk: name -> exists, tree
    pc,            \* per handler: the operation it is in
    lk,            \* per handler: position inside lock()/rlock() of that operation
    target,        \* per handler: the mutex looked up by lock()/rlock()
    held,          \* per handler: mode of its acquisition not yet released
    kind,          \* per handler: the endpoint serving
    pkgs,          \* per handler: keys of be.pkgs
    tmpGopath,     \* per handler: Open's tmpGopath (0 = none)
    backupGopath,  \* per handler: Deploy's backupGopath (0 = none)
    err,           \* per handler: the error being returned (<<>> = nil)
    pre,           \* per handler: the master tree when its Deploy began
    dep,           \* one call of Deploy followed step by step
    ser,           \* two BuildRequests and their Serialize strings
    plat,          \* one call of SupportedPlatforms
    bld,           \* one Open and the archive name of its Build
    sgn,           \* one run of httpBuild from the return of Build on
    rt,            \* one request through the handler chain of a route
    cmd,           \* one child process from its creation to its start
    plg,           \* the entry-point file through a sequence of plugInThePlugin
    prv,           \* two runs of provision on one BuildEnv
    cp,            \* one call of deepCopy
    rst            \* one rollback of Deploy: restoreMasterGopath and the return

\* The variables of the runs of single functions; a run that is not the
\* subject of a specification stays Off
pure == <<dep, ser, plat, bld, sgn, rt, cmd, plg, prv, cp, rst>>
Off == [pc |-> "off"]

vars == <<UidGid, crashed, gopathLocks, mu, master, ws, bk, pc, lk, target,
          held, kind, pkgs, tmpGopath, backupGopath, err, pre, pure>>

hvars == <<pc, lk, target, held, kind, pkgs, tmpGopath, backupGopath, err, pre>>

\* The variables of the server
svars == <<UidGid, crashed, gopathLocks, mu, master, ws, bk, hvars>>

NoWorkspace == [exists |-> FALSE, pkgs |-> {}]
NoBackup == [exists |-> FALSE, tree |-> EmptyTree]

\* The server before any request
Quiet ==
    /\ crashed = FALSE
    /\ gopathLocks = 0
    /\ mu = [m \in Handlers |-> [w |-> FALSE, r |-> 0]]
    /\ master = InitialMaster
    /\ ws = [n \in Names |-> NoWorkspace]
    /\ bk = [n \in Names |-> NoBackup]
    /\ pc = [h \in Handlers |-> "idle"]
    /\ lk = [h \in Handlers |-> "none"]
    /\ target = [h \in Handlers |-> 0]
    /\ held = [h \in Handlers |-> "none"]
    /\ kind = [h \in Handlers |-> ""]
    /\ pkgs = [h \in Handlers |-> {}]
    /\ tmpGopath = [h \in Handlers |-> 0]
    /\ backupGopath = [h \in Handlers |-> 0]
    /\ err = [h \in Handlers |-> <<>>]
    /\ pre = [h \in Handlers |-> EmptyTree]

Init ==
    /\ UidGid \in UidGidValues
    /\ Quiet
    /\ dep = Off /\ ser = Off /\ plat = Off /\ bld = Off /\ sgn = Off
    /\ rt = Off /\ cmd = Off /\ plg = Off /\ prv = Off /\ cp = Off /\ rst = Off

\* ------------------------------------------------------------------------
\* lock / unlock / rlock / runlock on the master GOPATH
\* ------------------------------------------------------------------------
WritePhases == {"fill", "update", "restore"}
ReadPhases == {"prov", "backup", "checks"}

\* Variant of LockMode: restoreMasterGopath calls rlock
LockModeRestoreRead(phase) == IF phase \in {"fill", "update"} THEN "W" ELSE "R"

\* lock() for the operations that call lock, rlock() for those that call rlock
LockMode(phase) == IF phase \in WritePhases THEN "W" ELSE "R"

Goto(h, p, l) ==
    /\ pc' = [pc EXCEPT ![h] = p]
    /\ lk' = [lk EXCEPT ![h] = l]

\* `if _, ok := gopathLocks[gopath]; !ok`: with an entry present the handler
\* goes on to look it up, otherwise it is about to insert one
LockCheck(h) ==
    /\ ~crashed
    /\ lk[h] = "check"
    /\ IF gopathLocks = 0
       THEN /\ lk' = [lk EXCEPT ![h] = "insert"]
            /\ UNCHANGED target
       ELSE /\ lk' = [lk EXCEPT ![h] = "acquire"]
            /\ target' = [target EXCEPT ![h] = gopathLocks]
    /\ UNCHANGED <<pure, UidGid, crashed, gopathLocks, mu, master, ws, bk, pc, held,
                   kind, pkgs, tmpGopath, backupGopath, err, pre>>

\* `gopathLocks[gopath] = new(sync.RWMutex)`: an unsynchronised map write.
\* The new mutex is named after the handler that allocates it.
LockInsert(h) ==
    /\ ~crashed
    /\ lk[h] = "insert"
    /\ gopathLocks' = h
    /\ mu' = [mu EXCEPT ![h] = [w |-> FALSE, r |-> 0]]
    /\ lk' = [lk EXCEPT ![h] = "lookup"]
    /\ UNCHANGED <<pure, UidGid, crashed, master, ws, bk, pc, target, held,
                   kind, pkgs, tmpGopath, backupGopath, err, pre>>

\* Two goroutines writing the map at once: the runtime may detect it and
\* abort the process ("fatal error: concurrent map writes")
LockInsertFatal(h) ==
    /\ ~crashed
    /\ lk[h] = "insert"
    /\ \E h2 \in Handlers \ {h} : lk[h2] = "insert"
    /\ crashed' = TRUE
    /\ UNCHANGED <<pure, UidGid, gopathLocks, mu, master, ws, bk, hvars>>

\* `gopathLocks[gopath]` evaluated for the call of Lock / RLock
LockLookup(h) ==
    /\ ~crashed
    /\ lk[h] = "lookup"
    /\ target' = [target EXCEPT ![h] = gopathLocks]
    /\ lk' = [lk EXCEPT ![h] = "acquire"]
    /\ UNCHANGED <<pure, UidGid, crashed, gopathLocks, mu, master, ws, bk, pc, held,
                   kind, pkgs, tmpGopath, backupGopath, err, pre>>

\* sync.RWMutex: Lock returns once there is no writer and no reader, RLock
\* once there is no writer.  (RLock also waits behind a pending Lock; that
\* only removes interleavings, so the states of the program are among the
\* states reached here.)
CanAcquire(m, mode) ==
    IF mode = "W" THEN ~mu[m].w /\ mu[m].r = 0 ELSE ~mu[m].w
Acquired(m, mode) ==
    IF mode = "W" THEN [mu EXCEPT ![m].w = TRUE] ELSE [mu EXCEPT ![m].r = @ + 1]

LockAcquire(h) ==
    /\ ~crashed
    /\ lk[h] = "acquire"
    /\ CanAcquire(target[h], LockMode(pc[h]))
    /\ mu' = Acquired(target[h], LockMode(pc[h]))
    /\ held' = [held EXCEPT ![h] = LockMode(pc[h])]
    /\ lk' = [lk EXCEPT ![h] = "in"]
    /\ UNCHANGED <<pure, UidGid, crashed, gopathLocks, master, ws, bk, pc, target,
                   kind, pkgs, tmpGopath, backupGopath, err, pre>>

\* unlock / runlock: `gopathLocks[gopath].Unlock()` acts on the mutex that
\* the table holds now; releasing a mutex that is not locked in that mode
\* is a fatal error of the runtime
ReleaseOK(mode) ==
    IF mode = "W" THEN mu[gopathLocks].w ELSE mu[gopathLocks].r > 0
Released(mode) ==
    IF mode = "W" THEN [mu EXCEPT ![gopathLocks].w = FALSE]
    ELSE [mu EXCEPT ![gopathLocks].r = @ - 1]

\* ------------------------------------------------------------------------
\* Handlers: Open, Build, Deploy, Close
\* ------------------------------------------------------------------------
Kinds == {"build", "deploy-caddy", "deploy-plugin"}

\* The plugin lists the three endpoints pass to Open
PluginLists(k) ==
    IF k = "build" THEN {<<>>, <<PluginPackage>>}
    ELSE IF k = "deploy-caddy" THEN {<<>>}
    ELSE {<<PluginPackage>>}

\* Keys of be.pkgs as Open fills it
OpenPkgs(plugins) == { plugins[i] : i \in DOMAIN plugins } \cup {CaddyPackage}

\* Variant of TempDirNames: the name is not checked against the disk
TempDirAnyName(d) == Names

\* ioutil.TempDir creates a directory under a name that did not exist, and
\* fails when it finds none
TempDirNames(d) == { n \in Names : ~d[n].exists }

\* chown(file) can only fail when UidGid > -1
ChownCanFail == UidGid > 0 - 1

\* Variant of RemoveAll: the directory is left on disk
RemoveAllKeeps(d, n) == d

\* os.RemoveAll of a temporary GOPATH, of a backup
RemoveAll(d, n) == [d EXCEPT ![n] = NoWorkspace]
RemoveAllBackup(d, n) == [d EXCEPT ![n] = NoBackup]

ResetHandler(h) ==
    /\ target' = [target EXCEPT ![h] = 0]
    /\ kind' = [kind EXCEPT ![h] = ""]
    /\ pkgs' = [pkgs EXCEPT ![h] = {}]
    /\ tmpGopath' = [tmpGopath EXCEPT ![h] = 0]
    /\ backupGopath' = [backupGopath EXCEPT ![h] = 0]
    /\ err' = [err EXCEPT ![h] = <<>>]
    /\ pre' = [pre EXCEPT ![h] = EmptyTree]

\* The server dispatches a request to one of the three POST endpoints
Request(h) ==
    /\ ~crashed
    /\ pc[h] = "idle"
    /\ \E k \in Kinds : kind' = [kind EXCEPT ![h] = k]
    /\ Goto(h, "open", "none")
    /\ UNCHANGED <<pure, UidGid, crashed, gopathLocks, mu, master, ws, bk, target, held,
                   pkgs, tmpGopath, backupGopath, err, pre>>

\* Open up to the call of provision: newTemporaryGopath and the package map
Open(h) ==
    /\ ~crashed
    /\ pc[h] = "open"
    /\ \/ /\ Goto(h, "openfail", "none")
          /\ err' = [err EXCEPT ![h] = <<"tempdir">>]
          /\ UNCHANGED <<ws, tmpGopath, pkgs>>
       \/ \E n \in TempDirNames(ws) :
            /\ ws' = [ws EXCEPT ![n] = [exists |-> TRUE, pkgs |-> {}]]
            /\ tmpGopath' = [tmpGopath EXCEPT ![h] = n]
            /\ \/ /\ ChownCanFail
                  /\ Goto(h, "openfail", "none")
                  /\ err' = [err EXCEPT ![h] = <<"chown">>]
                  /\ UNCHANGED pkgs
               \/ /\ \E plugins \in PluginLists(kind[h]) :
                        pkgs' = [pkgs EXCEPT ![h] = OpenPkgs(plugins)]
                  /\ Goto(h, "fill", "check")
                  /\ UNCHANGED err
    /\ UNCHANGED <<pure, UidGid, crashed, gopathLocks, mu, master, bk, target, held,
                   kind, backupGopath, pre>>

\* fillMasterGopath between lock and unlock, and Open's cleanup when it fails
fillMasterGopath(h) ==
    /\ ~crashed
    /\ pc[h] = "fill" /\ lk[h] = "in"
    /\ \E ok \in BOOLEAN, wrote \in BOOLEAN :
        /\ ok => wrote
        /\ master' = IF wrote THEN Filled(master, pkgs[h]) ELSE master
        /\ IF ReleaseOK("W")
           THEN /\ mu' = Released("W")
                /\ held' = [held EXCEPT ![h] = "none"]
                /\ IF ok
                   THEN /\ Goto(h, "prov", "check")
                        /\ UNCHANGED <<ws, err>>
                   ELSE /\ Goto(h, "openfail", "none")
                        /\ err' = [err EXCEPT ![h] = <<"fill">>]
                        /\ ws' = RemoveAll(ws, tmpGopath[h])
                /\ UNCHANGED crashed
           ELSE /\ crashed' = TRUE
                /\ UNCHANGED <<mu, held, pc, lk, ws, err>>
    /\ UNCHANGED <<pure, UidGid, gopathLocks, bk, target, kind, pkgs, tmpGopath,
                   backupGopath, pre>>

\* provision between rlock and runlock: copy, git fetch, git checkout and
\* go get of every package, and Open's cleanup when one of them fails.  A
\* package missing from the master GOPATH cannot be copied.
provision(h) ==
    /\ ~crashed
    /\ pc[h] = "prov" /\ lk[h] = "in"
    /\ \E outcome \in {<<>>, <<"copy">>, <<"fetch">>, <<"checkout">>, <<"goget">>} :
        /\ (\E pkg \in pkgs[h] : ~PkgPresent(master, pkg)) => outcome # <<>>
        /\ IF ReleaseOK("R")
           THEN /\ mu' = Released("R")
                /\ held' = [held EXCEPT ![h] = "none"]
                /\ IF outcome = <<>>
                   THEN /\ Goto(h, "opened", "none")
                        /\ ws' = [ws EXCEPT ![tmpGopath[h]].pkgs = pkgs[h]]
                        /\ UNCHANGED err
                   ELSE /\ Goto(h, "openfail", "none")
                        /\ err' = [err EXCEPT ![h] = outcome]
                        /\ ws' = RemoveAll(ws, tmpGopath[h])
                /\ UNCHANGED crashed
           ELSE /\ crashed' = TRUE
                /\ UNCHANGED <<mu, held, pc, lk, ws, err>>
    /\ UNCHANGED <<pure, UidGid, gopathLocks, master, bk, target, kind, pkgs, tmpGopath,
                   backupGopath, pre>>

\* The handler answers 400 after a failed Open; be.Close is not deferred yet
OpenFailed(h) ==
    /\ ~crashed
    /\ pc[h] = "openfail"
    /\ Goto(h, "done", "none")
    /\ ResetHandler(h)
    /\ UNCHANGED <<pure, UidGid, crashed, gopathLocks, mu, master, ws, bk, held>>

\* httpBuild calls be.Build
StartBuild(h) ==
    /\ ~crashed
    /\ pc[h] = "opened" /\ kind[h] = "build"
    /\ Goto(h, "build", "none")
    /\ UNCHANGED <<pure, UidGid, crashed, gopathLocks, mu, master, ws, bk, target, held,
                   kind, pkgs, tmpGopath, backupGopath, err, pre>>

\* Build: plug in the plugins, compile with GOPATH = tmpGopath:masterGopath,
\* archive
Build(h) ==
    /\ ~crashed
    /\ pc[h] = "build"
    /\ \E e \in {<<>>, <<"build">>} : err' = [err EXCEPT ![h] = e]
    /\ Goto(h, "ret", "none")
    /\ UNCHANGED <<pure, UidGid, crashed, gopathLocks, mu, master, ws, bk, target, held,
                   kind, pkgs, tmpGopath, backupGopath, pre>>

\* Variant of DeployUsageError: only the number of packages is checked
DeployUsageErrorSizeOnly(ps) ==
    IF Cardinality(ps) = 0 THEN "nothing to deploy"
    ELSE IF Cardinality(ps) \in {1, 2} THEN ""
    ELSE "too many packages to deploy"

\* The switch on len(be.pkgs) at the head of Deploy
DeployUsageError(ps) ==
    IF Cardinality(ps) = 0 THEN "nothing to deploy"
    ELSE IF Cardinality(ps) \in {1, 2}
         THEN IF CaddyPackage \notin ps THEN "no caddy package" ELSE ""
    ELSE "too many packages to deploy"

\* Deploy is entered: usage check, then on to backupMasterGopath
Deploy(h) ==
    /\ ~crashed
    /\ pc[h] = "opened" /\ kind[h] # "build"
    /\ pre' = [pre EXCEPT ![h] = master]
    /\ IF DeployUsageError(pkgs[h]) # ""
       THEN /\ Goto(h, "ret", "none")
            /\ err' = [err EXCEPT ![h] = <<DeployUsageError(pkgs[h])>>]
       ELSE /\ Goto(h, "backup", "check")
            /\ UNCHANGED err
    /\ UNCHANGED <<pure, UidGid, crashed, gopathLocks, mu, master, ws, bk, target, held,
                   kind, pkgs, tmpGopath, backupGopath>>

\* Deploy returns e: the deferred os.RemoveAll(backupGopath) runs
RemoveBackup(h) == bk' = RemoveAllBackup(bk, backupGopath[h])

\* backupMasterGopath between rlock and runlock, and Deploy's return when
\* it fails (before the deferred removal of the backup is registered)
backupMasterGopath(h) ==
    /\ ~crashed
    /\ pc[h] = "backup" /\ lk[h] = "in"
    /\ IF ReleaseOK("R")
       THEN /\ mu' = Released("R")
            /\ held' = [held EXCEPT ![h] = "none"]
            /\ \/ /\ Goto(h, "ret", "none")
                  /\ err' = [err EXCEPT ![h] = <<"backup-tempdir">>]
                  /\ UNCHANGED <<bk, backupGopath>>
               \/ \E b \in TempDirNames(bk) :
                    /\ backupGopath' = [backupGopath EXCEPT ![h] = b]
                    /\ \/ /\ ChownCanFail
                          /\ bk' = [bk EXCEPT ![b] = [exists |-> TRUE, tree |-> EmptyTree]]
                          /\ Goto(h, "ret", "none")
                          /\ err' = [err EXCEPT ![h] = <<"backup-chown">>]
                       \/ /\ Goto(h, "ret", "none")
                          /\ err' = [err EXCEPT ![h] = <<"backup-copy">>]
                          /\ UNCHANGED bk
                       \/ /\ bk' = [bk EXCEPT ![b] =
                                [exists |-> TRUE,
                                 tree |-> deepCopy(master, EmptyTree, CopyFlags, nMaster)]]
                          /\ Goto(h, "update", "check")
                          /\ UNCHANGED err
            /\ UNCHANGED crashed
       ELSE /\ crashed' = TRUE
            /\ UNCHANGED <<mu, held, pc, lk, bk, backupGopath, err>>
    /\ UNCHANGED <<pure, UidGid, gopathLocks, master, ws, target, kind, pkgs, tmpGopath, pre>>

\* The package that Deploy updates
packageToDeploy(ps) ==
    IF Cardinality(ps) = 1 THEN CaddyPackage
    ELSE IF Cardinality(ps) = 2 /\ ps # {CaddyPackage}
         THEN CHOOSE key \in ps : key # CaddyPackage
    ELSE ""

\* UpdateMasterGopath between lock and unlock: `go get -u` in the master
\* GOPATH; a failing run may have written already
UpdateMasterGopath(h) ==
    /\ ~crashed
    /\ pc[h] = "update" /\ lk[h] = "in"
    /\ \E ok \in BOOLEAN, wrote \in BOOLEAN :
        /\ ok => wrote
        /\ master' = IF wrote THEN Updated(master, packageToDeploy(pkgs[h]), h) ELSE master
        /\ IF ReleaseOK("W")
           THEN /\ mu' = Released("W")
                /\ held' = [held EXCEPT ![h] = "none"]
                /\ IF ok
                   THEN /\ Goto(h, "checks", "check")
                        /\ UNCHANGED <<bk, err>>
                   ELSE /\ Goto(h, "ret", "none")
                        /\ err' = [err EXCEPT ![h] = <<"update">>]
                        /\ RemoveBackup(h)
                /\ UNCHANGED crashed
           ELSE /\ crashed' = TRUE
                /\ UNCHANGED <<mu, held, pc, lk, bk, err>>
    /\ UNCHANGED <<pure, UidGid, gopathLocks, ws, target, kind, pkgs, tmpGopath,
                   backupGopath, pre>>

\* Variants of CheckResults: a failing go vet, a failing plugin test, asks
\* for the revert
CheckResultsVetReverts(ps) ==
    IF ps \ {CaddyPackage} = {} THEN { [err |-> <<>>, revert |-> FALSE] }
    ELSE { [err |-> <<>>, revert |-> FALSE],
           [err |-> <<"vet">>, revert |-> TRUE],
           [err |-> <<"test">>, revert |-> FALSE],
           [err |-> <<"plugin">>, revert |-> FALSE],
           [err |-> <<"coretest">>, revert |-> TRUE],
           [err |-> <<"gobuild">>, revert |-> FALSE] }
CheckResultsTestReverts(ps) ==
    IF ps \ {CaddyPackage} = {} THEN { [err |-> <<>>, revert |-> FALSE] }
    ELSE { [err |-> <<>>, revert |-> FALSE],
           [err |-> <<"vet">>, revert |-> FALSE],
           [err |-> <<"test">>, revert |-> TRUE],
           [err |-> <<"plugin">>, revert |-> FALSE],
           [err |-> <<"coretest">>, revert |-> TRUE],
           [err |-> <<"gobuild">>, revert |-> FALSE] }

\* Variant of CheckResults: no failure asks for the revert
CheckResultsNeverReverts(ps) ==
    IF ps \ {CaddyPackage} = {} THEN { [err |-> <<>>, revert |-> FALSE] }
    ELSE { [err |-> <<>>, revert |-> FALSE],
           [err |-> <<"vet">>, revert |-> FALSE],
           [err |-> <<"test">>, revert |-> FALSE],
           [err |-> <<"plugin">>, revert |-> FALSE],
           [err |-> <<"coretest">>, revert |-> FALSE],
           [err |-> <<"gobuild">>, revert |-> FALSE] }

\* The results RunPluginChecks can return for the packages ps: the error
\* ("" = nil) and the revert flag.  Only the loop body of a plugin can fail.
CheckResults(ps) ==
    IF ps \ {CaddyPackage} = {} THEN { [err |-> <<>>, revert |-> FALSE] }
    ELSE { [err |-> <<>>, revert |-> FALSE],
           [err |-> <<"vet">>, revert |-> FALSE],
           [err |-> <<"test">>, revert |-> FALSE],
           [err |-> <<"plugin">>, revert |-> FALSE],
           [err |-> <<"coretest">>, revert |-> TRUE],
           [err |-> <<"gobuild">>, revert |-> FALSE] }

\* RunPluginChecks between rlock and runlock, and Deploy's branch on its result
RunPluginChecks(h) ==
    /\ ~crashed
    /\ pc[h] = "checks" /\ lk[h] = "in"
    /\ \E res \in CheckResults(pkgs[h]) :
        IF ReleaseOK("R")
        THEN /\ mu' = Released("R")
             /\ held' = [held EXCEPT ![h] = "none"]
             /\ err' = [err EXCEPT ![h] = res.err]
             /\ IF res.err # <<>> /\ res.revert
                THEN /\ Goto(h, "restore", "check")
                     /\ UNCHANGED bk
                ELSE /\ Goto(h, "ret", "none")
                     /\ RemoveBackup(h)
             /\ UNCHANGED crashed
        ELSE /\ crashed' = TRUE
             /\ UNCHANGED <<mu, held, pc, lk, bk, err>>
    /\ UNCHANGED <<pure, UidGid, gopathLocks, master, ws, target, kind, pkgs, tmpGopath,
                   backupGopath, pre>>

\* restoreMasterGopath between lock and unlock: rename the master GOPATH
\* aside, copy the backup to the master path, remove the renamed original.
\* outcome names the step that failed ("" = none).
restoreMasterGopath(h) ==
    /\ ~crashed
    /\ pc[h] = "restore" /\ lk[h] = "in"
    /\ \E outcome \in {"", "rename", "copy", "remove"} :
        /\ master' = IF outcome = "rename" THEN master
                     ELSE IF outcome = "copy" THEN EmptyTree
                     ELSE deepCopy(bk[backupGopath[h]].tree, EmptyTree, CopyFlags, nBackup)
        /\ IF ReleaseOK("W")
           THEN /\ mu' = Released("W")
                /\ held' = [held EXCEPT ![h] = "none"]
                /\ err' = [err EXCEPT ![h] =
                              IF outcome = "" THEN err[h] ELSE err[h] \o <<outcome>>]
                /\ Goto(h, "ret", "none")
                /\ RemoveBackup(h)
                /\ UNCHANGED crashed
           ELSE /\ crashed' = TRUE
                /\ UNCHANGED <<mu, held, pc, lk, bk, err>>
    /\ UNCHANGED <<pure, UidGid, gopathLocks, ws, target, kind, pkgs, tmpGopath,
                   backupGopath, pre>>

\* The handler returns after Build or Deploy: the deferred be.Close runs
Close(h) ==
    /\ ~crashed
    /\ pc[h] = "ret"
    /\ ws' = RemoveAll(ws, tmpGopath[h])
    /\ Goto(h, "done", "none")
    /\ ResetHandler(h)
    /\ UNCHANGED <<pure, UidGid, crashed, gopathLocks, mu, master, bk, held>>

Next ==
    \E h \in Handlers :
        \/ Request(h) \/ Open(h)
        \/ LockCheck(h) \/ LockInsert(h) \/ LockInsertFatal(h)
        \/ LockLookup(h) \/ LockAcquire(h)
        \/ fillMasterGopath(h) \/ provision(h) \/ OpenFailed(h)
        \/ StartBuild(h) \/ Build(h)
        \/ Deploy(h) \/ backupMasterGopath(h) \/ UpdateMasterGopath(h)
        \/ RunPluginChecks(h) \/ restoreMasterGopath(h)
        \/ Close(h)

Spec == Init /\ [][Next]_vars

\* The steps of handler h once its request has been dispatched
HandlerStep(h) ==
    \/ Open(h)
    \/ LockCheck(h) \/ LockInsert(h) \/ LockLookup(h)
    \/ fillMasterGopath(h) \/ provision(h) \/ OpenFailed(h)
    \/ StartBuild(h) \/ Build(h)
    \/ Deploy(h) \/ backupMasterGopath(h) \/ UpdateMasterGopath(h)
    \/ RunPluginChecks(h) \/ restoreMasterGopath(h)
    \/ Close(h)

\* Every goroutine that can run does run, every subprocess and file
\* operation ends, and a handler waiting in Lock / RLock gets the mutex if
\* it is free again and again
SpecFair ==
    /\ Spec
    /\ \A h \in Handlers : WF_vars(HandlerStep(h)) /\ SF_vars(LockAcquire(h))

\* ------------------------------------------------------------------------
\* Properties
\* ------------------------------------------------------------------------
InWritePhase(h) == pc[h] \in WritePhases /\ lk[h] = "in"
InReadPhase(h) == pc[h] \in ReadPhases /\ lk[h] = "in"

\* No other handler has started: h runs alone
Alone(h) == \A h2 \in Handlers \ {h} : pc[h2] = "idle"

\* Deploy of handler h has returned and the handler has not closed yet
DeployReturned(h) == pc[h] = "ret" /\ kind[h] # "build"

\* Open of handler h succeeded and its Close has not run
IsOpen(h) ==
    pc[h] \in {"opened", "build", "backup", "update", "checks", "restore", "ret"}

\* Handler h owns a temporary GOPATH created by its Open
HasWorkspace(h) == pc[h] \in {"fill", "prov"} \/ IsOpen(h)

\* The master tree after the update of h's Deploy, from the tree before it
UpdateOf(h) == Updated(pre[h], packageToDeploy(pkgs[h]), h)

\* The master tree restored from a backup taken of tree t
RestoredFrom(t) ==
    deepCopy(deepCopy(t, EmptyTree, CopyFlags, nMaster), EmptyTree, CopyFlags, nBackup)

IsVcsPath(p) == \E i \in 1..Len(p) : p[i] = nGit

\* C1: in every reachable state of a live process, no handler is inside a
\* master-cache mutation (fillMasterGopath, UpdateMasterGopath,
\* restoreMasterGopath between lock and unlock) while another handler is
\* between rlock and runlock or inside another mutation.
C1_WriterExcludesOthers ==
    ~crashed =>
        \A h1 \in Handlers, h2 \in Handlers :
            (h1 # h2 /\ InWritePhase(h1)) => ~(InWritePhase(h2) \/ InReadPhase(h2))

\* C2: once the lock table has a lock for the master cache root, no call of
\* lock/rlock replaces it by another lock: every call works on one lock.
C2_OneLockPerRoot ==
    [][gopathLocks # 0 => gopathLocks' = gopathLocks]_vars

ReadsMaster(h) == (pc[h] \in {"prov", "checks"} /\ lk[h] = "in") \/ pc[h] = "build"
C4_ReadersHoldLock ==
    ~crashed =>
        \A h \in Handlers :
            ReadsMaster(h) =>
                /\ held[h] \in {"R", "W"}
                /\ \A h2 \in Handlers \ {h} :
                      ~(pc[h2] \in {"update", "restore"} /\ lk[h2] = "in")

\* C5 as stated: when Deploy has returned, either it returned nil and the
\* master cache holds the update, or it returned an error and the master
\* cache equals its content when Deploy began.
C5_DeployAllOrNothing ==
    \A h \in Handlers :
        DeployReturned(h) =>
            \/ err[h] = <<>> /\ master = UpdateOf(h)
            \/ err[h] # <<>> /\ master = pre[h]

\* C5 amended: with no other handler running, when Deploy has returned:
\* nil means the master cache holds the update; an error from the usage
\* check or from the backup means the master cache is as Deploy found it;
\* an error from the update means it is as found or updated; an error from
\* go vet, the plugin's tests, the plug-in step or a cross-compile means it
\* still holds the update; an error from the Core tests alone means it
\* holds the copy restored from the backup.
C5_DeployOutcomes ==
    \A h \in Handlers :
        (Alone(h) /\ DeployReturned(h)) =>
            /\ err[h] = <<>> => master = UpdateOf(h)
            /\ (Len(err[h]) = 1 /\ err[h][1] \in
                  {"nothing to deploy", "no caddy package", "too many packages to deploy",
                   "backup-tempdir", "backup-chown", "backup-copy"})
                  => master = pre[h]
            /\ err[h] = <<"update">> => master \in {pre[h], UpdateOf(h)}
            /\ (Len(err[h]) = 1 /\ err[h][1] \in {"vet", "test", "plugin", "gobuild"})
                  => master = UpdateOf(h)
            /\ err[h] = <<"coretest">> => master = RestoredFrom(pre[h])

C5_Witness ==
    \E h \in Handlers :
        Alone(h) /\ DeployReturned(h) /\ err[h] = <<"vet">> /\ master # pre[h]

\* C6 as stated: when Deploy returns the error of the plugin's own failing
\* tests, the master cache equals its content when Deploy began.
C6_PluginTestFailureRestores ==
    \A h \in Handlers :
        (DeployReturned(h) /\ err[h] = <<"test">>) => master = pre[h]

\* C6 amended: with no other handler running, when Deploy returns the
\* error of the plugin's own failing tests, the master cache has not been
\* restored: it holds the content written by the update.
C6_PluginTestFailureKeepsUpdate ==
    \A h \in Handlers :
        (Alone(h) /\ DeployReturned(h) /\ err[h] = <<"test">>)
            => master = UpdateOf(h) /\ master # pre[h]

C6_Witness ==
    \E h \in Handlers :
        /\ Alone(h) /\ DeployReturned(h) /\ err[h] = <<"test">>
        /\ kind[h] = "deploy-plugin"

C8_FailedOpenLeavesNoWorkspace ==
    [][\A h \in Handlers :
          (pc[h] # "openfail" /\ pc'[h] = "openfail" /\ tmpGopath'[h] # 0)
              => ~ws'[tmpGopath'[h]].exists]_vars

\* C9: after a successful Open and until Close, through Build and Deploy,
\* the temporary GOPATH exists and holds the sources of every package of
\* be.pkgs; the step of Close leaves it non-existent, and so does the
\* removal of Close applied once more.
C9_WorkspaceLifecycle ==
    [][\A h \in Handlers :
          /\ IsOpen(h)' => /\ tmpGopath'[h] # 0
                           /\ ws'[tmpGopath'[h]].exists
                           /\ pkgs'[h] # {}
                           /\ pkgs'[h] \subseteq ws'[tmpGopath'[h]].pkgs
          /\ (pc[h] = "ret" /\ pc'[h] = "done")
                => /\ ~ws'[tmpGopath[h]].exists
                   /\ ~RemoveAll(ws', tmpGopath[h])[tmpGopath[h]].exists]_vars

C9_Witness ==
    \E h \in Handlers :
        /\ DeployReturned(h) /\ pkgs[h] = {CaddyPackage, PluginPackage}
        /\ ws[tmpGopath[h]].exists /\ ws[tmpGopath[h]].pkgs = pkgs[h]
        /\ \E h2 \in Handlers \ {h} : pc[h2] = "done"

\* C10: two BuildEnvs open at the same time have different temporary
\* GOPATHs (siblings in the temp directory), and a temporary GOPATH owned
\* by a handler changes only in steps of that handler.
C10_WorkspacesDisjoint ==
    [][/\ \A h1 \in Handlers, h2 \in Handlers :
            (h1 # h2 /\ HasWorkspace(h1)' /\ HasWorkspace(h2)')
                => tmpGopath'[h1] # tmpGopath'[h2]
       /\ \A n \in Names : \A h \in Handlers :
            (ws'[n] # ws[n] /\ HasWorkspace(h) /\ tmpGopath[h] = n)
                => (pc'[h] # pc[h] \/ lk'[h] # lk[h])]_vars

C10_Witness ==
    \E h1 \in Handlers, h2 \in Handlers :
        /\ h1 # h2 /\ IsOpen(h1) /\ IsOpen(h2)
        /\ kind[h1] = kind[h2] /\ pkgs[h1] = pkgs[h2]
        /\ tmpGopath[h1] # tmpGopath[h2]

\* C11: with no other handler running, in the step in which a handler
\* returns (after a failed Open, or through its deferred Close), the
\* temporary GOPATH and the GOPATH backup that this handler created are not
\* on disk.
C11_NoDirectoryLeftOnExit ==
    [][\A h \in Handlers :
          (Alone(h) /\ pc[h] # "done" /\ pc'[h] = "done") =>
              /\ tmpGopath[h] # 0 => ~ws'[tmpGopath[h]].exists
              /\ backupGopath[h] # 0 => ~bk'[backupGopath[h]].exists]_vars

\* A path of the master tree whose entry differs from that of tree snap
ChangedSince(snap) ==
    { p \in DOMAIN master : p \notin DOMAIN snap \/ master[p] # snap[p] }

\* C35: when the restore of a Deploy replaces the master GOPATH, everything
\* that changed in it since that Deploy's backup was written by the update
\* of the same Deploy (or is a test file, which the backup never holds):
\* the rollback removes no change of another handler.
C35_RollbackRemovesOwnUpdateOnly ==
    [][\A h \in Handlers :
          (pc[h] = "restore" /\ lk[h] = "in" /\ pc'[h] = "ret" /\ master' # master) =>
             \A p \in ChangedSince(bk[backupGopath[h]].tree) :
                \/ master[p] = h
                \/ IsDir(p) /\ p \in PkgPaths(packageToDeploy(pkgs[h])) \cup {<<nSrc>>}
                \/ \E k \in 1..Len(p) :
                      SkipEntry(master, CopyFlags, SubSeq(p, 1, k), nMaster)]_vars

\* C34: with fair scheduling every handler whose request was dispatched
\* returns: it reaches the end of its handler function.
C34_EveryHandlerReturns ==
    \A h \in Handlers : (pc[h] = "open") ~> (pc[h] = "done")

\* C28: a handler inside fillMasterGopath has the mutex it acquired
\* write-locked, and inside the loop of provision has it read-locked; the
\* step that ends fillMasterGopath leaves that mutex not write-locked and
\* goes on to the loop only with every package of be.pkgs present in the
\* master cache; the step that ends the loop gives its read-lock back; a
\* handler at a return of provision has no acquisition left; and packages
\* are copied into the workspace only by the step of the loop.
C28_ProvisionLockPhases ==
    [][\A h \in Handlers :
          /\ (pc'[h] = "fill" /\ lk'[h] = "in") => mu'[target'[h]].w
          /\ (pc'[h] = "prov" /\ lk'[h] = "in") => mu'[target'[h]].r > 0
          /\ (pc[h] = "fill" /\ pc'[h] \in {"prov", "openfail"})
                => /\ ~mu'[target[h]].w
                   /\ held'[h] = "none"
          /\ (pc[h] = "fill" /\ pc'[h] = "prov")
                => \A pkg \in pkgs[h] : PkgPresent(master', pkg)
          /\ (pc[h] = "prov" /\ pc'[h] \in {"opened", "openfail"})
                => /\ mu'[target[h]].r = mu[target[h]].r - 1
                   /\ held'[h] = "none"
          /\ \A n \in Names :
                (ws'[n].pkgs # ws[n].pkgs /\ ws'[n].pkgs # {} /\ tmpGopath[h] = n
                    /\ pc'[h] # pc[h])
                  => pc[h] = "prov" /\ lk[h] = "in"]_vars

\* ------------------------------------------------------------------------
\* One call of Deploy by a deploy handler, followed operation by operation.
\* dep.pkgs are the keys of be.pkgs, dep.platforms the requiredPlatforms,
\* dep.fails the operations that fail when they are run (a go build fails
\* for the platform dep.bad), dep.ran the operations run so far and
\* dep.status the status the handler answers (0 = none yet).
\* ------------------------------------------------------------------------
MaxRequired == 2      \* length of requiredPlatforms

OtherPackage == "example.com/other"
DeployPkgs == {CaddyPackage, PluginPackage, OtherPackage}
DeployOps == {"backup", "update", "vet", "test", "plugin", "coretest", "gobuild", "restore"}
RequiredPlatforms == { Platform("linux", "amd64", ""), Platform("darwin", "amd64", "") }
NoPlatform == Platform("", "", "")

SeqsUpTo(S, n) == UNION { [1..k -> S] : k \in 0..n }

\* An operation on a package, a go build of a package for a platform
Op(o, pkg) == [op |-> o, pkg |-> pkg, plat |-> NoPlatform]
BuildOp(pkg, platform) == [op |-> "gobuild", pkg |-> pkg, plat |-> platform]

\* goBuildChecks: `for _, platform := range requiredPlatforms`, one go
\* build of pkg per platform
goBuildChecks(pkg, requiredPlatforms) ==
    [i \in DOMAIN requiredPlatforms |->
        [op |-> "gobuild", pkg |-> pkg, plat |-> requiredPlatforms[i], revert |-> FALSE]]

\* Variant of PluginCheckSteps: the plugin is injected and the Core tested
\* before the plugin's own lint and tests
PluginCheckStepsCoreFirst(pkg, requiredPlatforms) ==
    << [op |-> "plugin", pkg |-> pkg, plat |-> NoPlatform, revert |-> FALSE],
       [op |-> "coretest", pkg |-> CaddyPackage, plat |-> NoPlatform, revert |-> TRUE],
       [op |-> "vet", pkg |-> pkg, plat |-> NoPlatform, revert |-> FALSE],
       [op |-> "test", pkg |-> pkg, plat |-> NoPlatform, revert |-> FALSE] >>
        \o goBuildChecks(pkg, requiredPlatforms)

\* The body of the loop of RunPluginChecks for plugin pkg: the operations
\* in the order of the code, each with the revert flag returned if it fails
PluginCheckSteps(pkg, requiredPlatforms) ==
    << [op |-> "vet", pkg |-> pkg, plat |-> NoPlatform, revert |-> FALSE],
       [op |-> "test", pkg |-> pkg, plat |-> NoPlatform, revert |-> FALSE],
       [op |-> "plugin", pkg |-> pkg, plat |-> NoPlatform, revert |-> FALSE],
       [op |-> "coretest", pkg |-> CaddyPackage, plat |-> NoPlatform, revert |-> TRUE] >>
        \o goBuildChecks(pkg, requiredPlatforms)

\* Whether operation o fails when the call d of Deploy runs it
OpFails(d, o) ==
    o.op \in d.fails /\ (o.op = "gobuild" => o.plat = d.bad)

\* The steps from step i on, up to the first that fails
RECURSIVE RunSteps(_, _, _, _)
RunSteps(steps, i, d, ran) ==
    IF i > Len(steps) THEN [ran |-> ran, err |-> <<>>, revert |-> FALSE]
    ELSE LET st == steps[i]
             o == [op |-> st.op, pkg |-> st.pkg, plat |-> st.plat]
             now == Append(ran, o) IN
         IF OpFails(d, o)
         THEN [ran |-> now, err |-> <<st.op>>, revert |-> st.revert]
         ELSE RunSteps(steps, i + 1, d, now)

\* RunPluginChecks: `for pkg := range be.pkgs`, skipping CaddyPackage, in
\* the order todo of the map iteration; a failing step returns at once
RECURSIVE PluginChecks(_, _, _)
PluginChecks(todo, d, ran) ==
    IF todo = <<>> THEN [ran |-> ran, err |-> <<>>, revert |-> FALSE]
    ELSE IF Head(todo) = CaddyPackage THEN PluginChecks(Tail(todo), d, ran)
    ELSE LET r == RunSteps(PluginCheckSteps(Head(todo), d.platforms), 1, d, ran) IN
         IF r.err # <<>> THEN r ELSE PluginChecks(Tail(todo), d, r.ran)

\* The orders in which a map with keys ps can be iterated
Orders(ps) ==
    { o \in [1..Cardinality(ps) -> ps] : \A i, j \in DOMAIN o : i # j => o[i] # o[j] }

DeployInit ==
    /\ dep \in [pc : {"call"}, pkgs : SUBSET DeployPkgs, fails : SUBSET DeployOps,
                platforms : SeqsUpTo(RequiredPlatforms, MaxRequired),
                bad : RequiredPlatforms,
                ran : {<<>>}, err : {<<>>}, revert : {FALSE}, status : {0}]
    /\ UidGid = 0 - 1
    /\ Quiet
    /\ ser = Off /\ plat = Off /\ bld = Off /\ sgn = Off
    /\ rt = Off /\ cmd = Off /\ plg = Off /\ prv = Off /\ cp = Off /\ rst = Off

\* The switch at the head of Deploy
DeployCall ==
    /\ dep.pc = "call"
    /\ dep' = IF DeployUsageError(dep.pkgs) # ""
              THEN [dep EXCEPT !.pc = "returned", !.err = <<DeployUsageError(dep.pkgs)>>]
              ELSE [dep EXCEPT !.pc = "backup"]
    /\ UNCHANGED <<svars, ser, plat, bld, sgn, rt, cmd, plg, prv, cp, rst>>

\* backupGopath, err := be.backupMasterGopath(); return err on failure
DeployBackup ==
    /\ dep.pc = "backup"
    /\ dep' = IF "backup" \in dep.fails
              THEN [dep EXCEPT !.pc = "returned", !.err = <<"backup">>,
                               !.ran = Append(@, Op("backup", ""))]
              ELSE [dep EXCEPT !.pc = "update", !.ran = Append(@, Op("backup", ""))]
    /\ UNCHANGED <<svars, ser, plat, bld, sgn, rt, cmd, plg, prv, cp, rst>>

\* err = be.UpdateMasterGopath(); return err on failure
DeployUpdate ==
    /\ dep.pc = "update"
    /\ LET now == Append(dep.ran, Op("update", packageToDeploy(dep.pkgs))) IN
       dep' = IF "update" \in dep.fails
              THEN [dep EXCEPT !.pc = "returned", !.err = <<"update">>, !.ran = now]
              ELSE [dep EXCEPT !.pc = "checks", !.ran = now]
    /\ UNCHANGED <<svars, ser, plat, bld, sgn, rt, cmd, plg, prv, cp, rst>>

\* revert, err := be.RunPluginChecks(requiredPlatforms), and the branch on
\* `err != nil && revert`
DeployChecks ==
    /\ dep.pc = "checks"
    /\ \E o \in Orders(dep.pkgs) :
         LET r == PluginChecks(o, dep, dep.ran) IN
         dep' = [dep EXCEPT !.ran = r.ran, !.err = r.err, !.revert = r.revert,
                            !.pc = IF r.err # <<>> /\ r.revert THEN "restore"
                                   ELSE "returned"]
    /\ UNCHANGED <<svars, ser, plat, bld, sgn, rt, cmd, plg, prv, cp, rst>>

\* err2 := be.restoreMasterGopath(backupGopath); both errors on failure
DeployRestore ==
    /\ dep.pc = "restore"
    /\ dep' = [dep EXCEPT !.pc = "returned",
                          !.ran = Append(@, Op("restore", "")),
                          !.err = IF "restore" \in dep.fails
                                  THEN Append(@, "restore") ELSE @]
    /\ UNCHANGED <<svars, ser, plat, bld, sgn, rt, cmd, plg, prv, cp, rst>>

\* The status a deploy handler answers with for the result of be.Deploy:
\* w.WriteHeader(http.StatusBadRequest) for every error
DeployStatus(e) == IF e # <<>> THEN 400 ELSE 200

\* `err = be.Deploy(...); if err != nil { ... }` in the handler
DeployRespond ==
    /\ dep.pc = "returned"
    /\ dep' = [dep EXCEPT !.pc = "answered", !.status = DeployStatus(dep.err)]
    /\ UNCHANGED <<svars, ser, plat, bld, sgn, rt, cmd, plg, prv, cp, rst>>

DeployNext ==
    \/ DeployCall \/ DeployBackup \/ DeployUpdate \/ DeployChecks \/ DeployRestore
    \/ DeployRespond

SpecDeploy == DeployInit /\ [][DeployNext]_vars

UsageErrors == {"nothing to deploy", "no caddy package", "too many packages to deploy"}

\* The package sets Deploy accepts: the Core alone, or the Core and one plugin
ValidDeploySet(ps) ==
    \/ ps = {CaddyPackage}
    \/ \E p \in ps \ {CaddyPackage} : ps = {CaddyPackage, p}

\* C12: Deploy runs its first operation (the backup, which takes the lock)
\* only for a package set that is {Core} or {Core, one plugin}; for every
\* other set it returns a usage error having run nothing.
C12_DeployUsage ==
    /\ dep.ran # <<>> => ValidDeploySet(dep.pkgs)
    /\ (dep.pc = "returned" /\ ~ValidDeploySet(dep.pkgs))
          => /\ Len(dep.err) = 1 /\ dep.err[1] \in UsageErrors
             /\ dep.ran = <<>>
    /\ (dep.pc = "returned" /\ ValidDeploySet(dep.pkgs))
          => /\ dep.ran # <<>> /\ dep.ran[1].op = "backup"
             /\ \A e \in UsageErrors : dep.err # <<e>>

C12_Witness ==
    /\ dep.pc = "returned"
    /\ dep.pkgs = {PluginPackage, OtherPackage}
    /\ dep.err = <<"no caddy package">>

\* Position of the first operation o on package pkg in the log (0 = none)
FirstAt(ran, o, pkg) ==
    LET Is(i) == ran[i].op = o /\ ran[i].pkg = pkg IN
    IF \E i \in DOMAIN ran : Is(i)
    THEN CHOOSE i \in DOMAIN ran : Is(i) /\ \A j \in 1..(i - 1) : ~Is(j)
    ELSE 0

\* C13: a Deploy of the Core alone that returns nil has run, after the
\* update, go vet of the Core, then the tests of the Core, then the
\* cross-compile of the Core.
C13_CoreDeployRunsChecks ==
    (dep.pc = "returned" /\ dep.pkgs = {CaddyPackage} /\ dep.err = <<>>) =>
        LET u == FirstAt(dep.ran, "update", CaddyPackage)
            v == FirstAt(dep.ran, "vet", CaddyPackage)
            t == FirstAt(dep.ran, "test", CaddyPackage)
            b == FirstAt(dep.ran, "gobuild", CaddyPackage) IN
        0 < u /\ u < v /\ v < t /\ t < b

\* An error of Deploy that comes from taking the backup or from restoring
\* the master GOPATH
IntegrityFailure(e) == e # <<>> /\ (e[1] = "backup" \/ e[Len(e)] = "restore")

\* C22: a deploy handler answers 400 when Deploy returns a usage error or
\* the error of the update or of a check, and 500 when Deploy returns an
\* error of the backup or of the restore.
C22_StatusByErrorKind ==
    dep.pc = "answered" =>
        /\ (dep.err # <<>> /\ ~IntegrityFailure(dep.err)) => dep.status = 400
        /\ IntegrityFailure(dep.err) => dep.status = 500

\* The operations of a deploy of plugin p in the order stated: backup,
\* update, lint, plugin test, injection, Core test, one cross-compile per
\* required platform in list order
StatedOrder(p, requiredPlatforms) ==
    << Op("backup", ""), Op("update", p), Op("vet", p), Op("test", p),
       Op("plugin", p), Op("coretest", CaddyPackage) >>
        \o [i \in DOMAIN requiredPlatforms |-> BuildOp(p, requiredPlatforms[i])]

\* The log without the restore that may end it
BeforeRestore(ran) ==
    IF ran # <<>> /\ ran[Len(ran)].op = "restore"
    THEN SubSeq(ran, 1, Len(ran) - 1) ELSE ran

\* C27: in a deploy of the Core with one plugin the operations run are a
\* prefix of the stated order (lint, plugin test, injection, Core test,
\* cross-compiles in list order, after backup and update); none but the
\* last of them failed; when one failed Deploy returns its error, and when
\* none failed every operation of the order has run and Deploy returns nil.
C27_CheckOrder ==
    \A p \in DeployPkgs \ {CaddyPackage} :
        dep.pkgs = {CaddyPackage, p} =>
            LET order == StatedOrder(p, dep.platforms)
                done == BeforeRestore(dep.ran) IN
            /\ Len(done) <= Len(order)
            /\ done = SubSeq(order, 1, Len(done))
            /\ \A i \in 1..(Len(done) - 1) : ~OpFails(dep, done[i])
            /\ dep.pc \in {"returned", "answered"} =>
                  IF \E i \in DOMAIN done : OpFails(dep, done[i])
                  THEN dep.err # <<>> /\ dep.err[1] = done[Len(done)].op
                  ELSE done = order /\ dep.err = <<>>

C27_Witness ==
    /\ dep.pc = "returned"
    /\ dep.pkgs = {CaddyPackage, PluginPackage}
    /\ dep.platforms = << Platform("linux", "amd64", ""), Platform("darwin", "amd64", "") >>
    /\ dep.bad = Platform("darwin", "amd64", "")
    /\ Len(dep.ran) = 8 /\ dep.ran[8] = BuildOp(PluginPackage, dep.bad)
    /\ dep.err = <<"gobuild">>

\* C14: a handler's Deploy goes on to restoreMasterGopath exactly when its
\* checks failed in the tests of the Core with the plugin installed, and
\* the restore that succeeds puts the copy of the backup in place; when the
\* checks end otherwise, or the update fails, Deploy returns and no later
\* step of that handler changes the master cache.
C14_RestoreOnlyOnCoreTest ==
    [][\A h \in Handlers :
          /\ (pc[h] # "restore" /\ pc'[h] = "restore")
                => pc[h] = "checks" /\ err'[h] = <<"coretest">>
          /\ (pc[h] = "checks" /\ pc'[h] = "ret")
                => err'[h] # <<"coretest">> /\ master' = master
          /\ (pc[h] = "restore" /\ pc'[h] = "ret" /\ err'[h] = <<"coretest">>)
                => master' = deepCopy(bk[backupGopath[h]].tree, EmptyTree,
                                      CopyFlags, nBackup)
          /\ (pc[h] = "update" /\ pc'[h] = "ret") => err'[h] = <<"update">>
          /\ (pc[h] = "ret" /\ pc'[h] # "ret") => master' = master]_vars

C14_Witness ==
    \E h \in Handlers :
        /\ DeployReturned(h) /\ Alone(h) /\ kind[h] = "deploy-plugin"
        /\ err[h] = <<"coretest">>
        /\ master = RestoredFrom(pre[h]) /\ master # UpdateOf(h)

\* ------------------------------------------------------------------------
\* BuildRequest.Serialize.  A string is the sequence of its characters;
\* strings are ordered as Go orders them, byte by byte.
\* ------------------------------------------------------------------------
ByteOf(c) == CASE c = "A" -> 65 [] c = "B" -> 66 [] c = "a" -> 97 [] c = "b" -> 98

\* x < y on strings
RECURSIVE StrLess(_, _)
StrLess(x, y) ==
    IF y = <<>> THEN FALSE
    ELSE IF x = <<>> THEN TRUE
    ELSE IF Head(x) = Head(y) THEN StrLess(Tail(x), Tail(y))
    ELSE ByteOf(Head(x)) < ByteOf(Head(y))

\* sort.Slice(br.BuildConfig.Plugins, less by Name): plugin p put in its
\* place in the sorted list ps
RECURSIVE InsertPlugin(_, _)
InsertPlugin(p, ps) ==
    IF ps = <<>> THEN <<p>>
    ELSE IF StrLess(p.Name, Head(ps).Name) THEN <<p>> \o ps
    ELSE <<Head(ps)>> \o InsertPlugin(p, Tail(ps))

RECURSIVE SortPlugins(_)
SortPlugins(ps) ==
    IF ps = <<>> THEN <<>> ELSE InsertPlugin(Head(ps), SortPlugins(Tail(ps)))

\* `plugins += plugin.Name + ","` over the list, then the last comma cut
RECURSIVE PluginNames(_)
PluginNames(ps) ==
    IF ps = <<>> THEN <<>> ELSE Head(ps).Name \o <<",">> \o PluginNames(Tail(ps))

CutLast(str) == IF Len(str) > 0 THEN SubSeq(str, 1, Len(str) - 1) ELSE str

\* fmt.Sprintf("%s:%s.%s.%s:%s", CaddyVersion, OS, Arch, ARM, plugins)
Serialize(br) ==
    br.CaddyVersion \o <<":">> \o br.OS \o <<".">> \o br.Arch \o <<".">> \o br.ARM
        \o <<":">> \o CutLast(PluginNames(SortPlugins(br.Plugins)))

\* The requests of the model
SerVersions == { <<"v", "1">>, <<"v", "2">> }
SerPlatforms ==
    { [OS |-> <<"linux">>, Arch |-> <<"amd64">>, ARM |-> <<>>],
      [OS |-> <<"linux">>, Arch |-> <<"arm">>, ARM |-> <<"7">>] }
SerNames == { <<"a">>, <<"A">>, <<"b">> }
SerPluginVersions == { <<"1">>, <<"2">> }
SerPlugins == { [Name |-> n, Version |-> v] : n \in SerNames, v \in SerPluginVersions }
SerPluginLists ==
    {<<>>} \cup { <<p>> : p \in SerPlugins }
           \cup { <<p, q>> : p \in SerPlugins, q \in SerPlugins }
BuildRequests ==
    { [CaddyVersion |-> v, OS |-> pl.OS, Arch |-> pl.Arch, ARM |-> pl.ARM, Plugins |-> ps] :
        v \in SerVersions, pl \in SerPlatforms, ps \in SerPluginLists }

SerializeInit ==
    /\ ser \in [pc : {"call"}, b1 : BuildRequests, b2 : BuildRequests,
                s1 : {<<>>}, s2 : {<<>>}]
    /\ UidGid = 0 - 1
    /\ Quiet
    /\ dep = Off /\ plat = Off /\ bld = Off /\ sgn = Off
    /\ rt = Off /\ cmd = Off /\ plg = Off /\ prv = Off /\ cp = Off /\ rst = Off

\* Variant of SortOutcomes: the elements are left in any order
SortOutcomesAnyOrder(ps) ==
    { [i \in DOMAIN ps |-> ps[f[i]]] : f \in Permutations(DOMAIN ps) }

\* sort.Slice on the slice the caller shares with the receiver: the elements
\* are swapped whole until the names ascend; sort.Slice is not stable, so
\* elements of equal name end in either order
SortOutcomes(ps) ==
    { o \in { [i \in DOMAIN ps |-> ps[f[i]]] : f \in Permutations(DOMAIN ps) } :
        \A i \in DOMAIN o : \A j \in DOMAIN o :
            i < j => ~StrLess(o[j].Name, o[i].Name) }

\* Serialize is called on both requests; the call leaves the plugin list
\* of its request sorted.  in1 and in2 are the requests before the call.
SerializeCall ==
    /\ ser.pc = "call"
    /\ \E o1 \in SortOutcomes(ser.b1.Plugins), o2 \in SortOutcomes(ser.b2.Plugins) :
          ser' = [pc |-> "returned", in1 |-> ser.b1, in2 |-> ser.b2,
                  b1 |-> [ser.b1 EXCEPT !.Plugins = o1],
                  b2 |-> [ser.b2 EXCEPT !.Plugins = o2],
                  s1 |-> Serialize(ser.b1), s2 |-> Serialize(ser.b2)]
    /\ UNCHANGED <<svars, dep, plat, bld, sgn, rt, cmd, plg, prv, cp, rst>>

\* Serialize is called once more on the requests as the first call left them
SerializeAgain ==
    /\ ser.pc = "returned"
    /\ \E o1 \in SortOutcomes(ser.b1.Plugins), o2 \in SortOutcomes(ser.b2.Plugins) :
          ser' = [pc |-> "again", in1 |-> ser.in1, in2 |-> ser.in2,
                  b1 |-> [ser.b1 EXCEPT !.Plugins = o1],
                  b2 |-> [ser.b2 EXCEPT !.Plugins = o2],
                  s1 |-> ser.s1, s2 |-> ser.s2,
                  t1 |-> Serialize(ser.b1), t2 |-> Serialize(ser.b2)]
    /\ UNCHANGED <<svars, dep, plat, bld, sgn, rt, cmd, plg, prv, cp, rst>>

SerializeNext == SerializeCall \/ SerializeAgain

SpecSerialize == SerializeInit /\ [][SerializeNext]_vars

\* Lower case of a character, of a string
ToLowerChar(c) == CASE c = "A" -> "a" [] c = "B" -> "b" [] OTHER -> c
ToLower(str) == [i \in DOMAIN str |-> ToLowerChar(str[i])]

\* The set of plugin names of a request, case folded
NameSet(br) == { ToLower(br.Plugins[i].Name) : i \in DOMAIN br.Plugins }

\* C15: the Serialize strings of two requests are equal exactly when the
\* requests have the same core version, the same (os, arch, arm) and the
\* same set of plugin names compared without regard to case or order.
C15_SerializeKey ==
    ser.pc = "returned" =>
        ((ser.s1 = ser.s2) <=>
            /\ ser.b1.CaddyVersion = ser.b2.CaddyVersion
            /\ ser.b1.OS = ser.b2.OS /\ ser.b1.Arch = ser.b2.Arch
            /\ ser.b1.ARM = ser.b2.ARM
            /\ NameSet(ser.b1) = NameSet(ser.b2))

\* How often plugin p occurs in list ps
Occurrences(ps, p) == Cardinality({ i \in DOMAIN ps : ps[i] = p })

\* Request after is request before with its plugins rearranged in ascending
\* order of name and nothing else changed
SortedCopy(before, after) ==
    /\ after.CaddyVersion = before.CaddyVersion
    /\ after.OS = before.OS /\ after.Arch = before.Arch /\ after.ARM = before.ARM
    /\ Len(after.Plugins) = Len(before.Plugins)
    /\ \A p \in SerPlugins :
          Occurrences(after.Plugins, p) = Occurrences(before.Plugins, p)
    /\ \A i \in DOMAIN after.Plugins : \A j \in DOMAIN after.Plugins :
          i < j => ~StrLess(after.Plugins[j].Name, after.Plugins[i].Name)

\* C36: after Serialize the caller's request differs from the one passed in
\* only in the order of its plugin list, which is a permutation of the
\* original in ascending order of name with every plugin's fields as they
\* were; a second call returns the string of the first.
C36_SerializeOnlyReorders ==
    /\ ser.pc \in {"returned", "again"} =>
          SortedCopy(ser.in1, ser.b1) /\ SortedCopy(ser.in2, ser.b2)
    /\ ser.pc = "again" => ser.t1 = ser.s1 /\ ser.t2 = ser.s2

\* A list given in descending order of name, with two versions, has been
\* serialized twice
C36_Witness ==
    /\ ser.pc = "again"
    /\ ser.in1.Plugins = << [Name |-> <<"b">>, Version |-> <<"2">>],
                            [Name |-> <<"a">>, Version |-> <<"1">>] >>
    /\ ser.b1.Plugins = << [Name |-> <<"a">>, Version |-> <<"1">>],
                           [Name |-> <<"b">>, Version |-> <<"2">>] >>
    /\ ser.t1 = ser.s1

\* ------------------------------------------------------------------------
\* SupportedPlatforms(skip).  plat.out is the list that `go tool dist list
\* -json` prints (it has no GOARM, so ARM is empty), plat.skip the denylist.
\* ------------------------------------------------------------------------
MaxPlatforms == 3     \* length of the list of the toolchain
MaxSkip == 2          \* length of the denylist

DistList ==
    { PlatformCgo("linux", "arm", "", TRUE), PlatformCgo("freebsd", "arm", "", FALSE),
      PlatformCgo("linux", "amd64", "", TRUE) }
SkipEntries ==
    { Platform(os, arch, arm) : os \in {"", "linux"}, arch \in {"", "arm"},
                                arm \in {"", "5", "6"} }

\* Variant of ExpandARM: the entries for ARM 6 and 7 are built without the
\* Cgo flag of the entry they come from
RECURSIVE ExpandARMNoCgo(_, _)
ExpandARMNoCgo(platforms, i) ==
    IF i < 1 THEN platforms
    ELSE LET p == platforms[i] IN
         IF p.Arch = "arm" /\ p.ARM = ""
         THEN ExpandARMNoCgo(
                  SubSeq(platforms, 1, i - 1)
                      \o << [p EXCEPT !.ARM = "5"], Platform(p.OS, p.Arch, "6"),
                            Platform(p.OS, p.Arch, "7") >>
                      \o SubSeq(platforms, i + 1, Len(platforms)),
                  i - 1)
         ELSE ExpandARMNoCgo(platforms, i - 1)

\* The loop `for i := len(platforms) - 1; i >= 0; i--` that expands the ARM
\* platforms, from index i (counted from 1) down: platforms[i].ARM = "5",
\* and the entries for 6 and 7 put in after it
RECURSIVE ExpandARM(_, _)
ExpandARM(platforms, i) ==
    IF i < 1 THEN platforms
    ELSE LET p == platforms[i] IN
         IF p.Arch = "arm" /\ p.ARM = ""
         THEN ExpandARM(
                  SubSeq(platforms, 1, i - 1)
                      \o << [p EXCEPT !.ARM = "5"],
                            PlatformCgo(p.OS, p.Arch, "6", p.Cgo),
                            PlatformCgo(p.OS, p.Arch, "7", p.Cgo) >>
                      \o SubSeq(platforms, i + 1, Len(platforms)),
                  i - 1)
         ELSE ExpandARM(platforms, i - 1)

\* osMatch && archMatch && armMatch
SkipMatches(unsup, p) ==
    /\ unsup.OS = "" \/ unsup.OS = p.OS
    /\ unsup.Arch = "" \/ unsup.Arch = p.Arch
    /\ unsup.ARM = "" \/ unsup.ARM = p.ARM

\* The inner loop `for _, unsup := range skip`: whether it removes p
SkipLoopRemoves(p, skip) ==
    \E k \in DOMAIN skip :
        SkipMatches(skip[k], p) \/ (p.ARM = "5" /\ p.OS # "linux")

\* Variant of RemoveUnsupported: after a removal the index is not stepped
\* back, so the entry that moved into place i is not examined
RECURSIVE RemoveUnsupportedNoStepBack(_, _, _)
RemoveUnsupportedNoStepBack(platforms, i, skip) ==
    IF i > Len(platforms) THEN platforms
    ELSE IF SkipLoopRemoves(platforms[i], skip)
         THEN RemoveUnsupportedNoStepBack(
                  SubSeq(platforms, 1, i - 1) \o SubSeq(platforms, i + 1, Len(platforms)),
                  i + 1, skip)
         ELSE RemoveUnsupportedNoStepBack(platforms, i + 1, skip)

\* The loop `for i := 0; i < len(platforms); i++` that removes platforms,
\* from index i (counted from 1) on: a removal does i-- before the i++
RECURSIVE RemoveUnsupported(_, _, _)
RemoveUnsupported(platforms, i, skip) ==
    IF i > Len(platforms) THEN platforms
    ELSE IF SkipLoopRemoves(platforms[i], skip)
         THEN RemoveUnsupported(
                  SubSeq(platforms, 1, i - 1) \o SubSeq(platforms, i + 1, Len(platforms)),
                  i, skip)
         ELSE RemoveUnsupported(platforms, i + 1, skip)

SupportedPlatforms(out, skip) ==
    LET expanded == ExpandARM(out, Len(out)) IN
    RemoveUnsupported(expanded, 1, skip)

PlatformsInit ==
    /\ plat \in [pc : {"call"}, out : SeqsUpTo(DistList, MaxPlatforms),
                 skip : SeqsUpTo(SkipEntries, MaxSkip), res : {<<>>}]
    /\ UidGid = 0 - 1
    /\ Quiet
    /\ dep = Off /\ ser = Off /\ bld = Off /\ sgn = Off
    /\ rt = Off /\ cmd = Off /\ plg = Off /\ prv = Off /\ cp = Off /\ rst = Off

PlatformsCall ==
    /\ plat.pc = "call"
    /\ plat' = [plat EXCEPT !.pc = "returned",
                            !.res = SupportedPlatforms(plat.out, plat.skip)]
    /\ UNCHANGED <<svars, dep, ser, bld, sgn, rt, cmd, plg, prv, cp, rst>>

PlatformsNext == PlatformsCall

SpecPlatforms == PlatformsInit /\ [][PlatformsNext]_vars

\* C16: no entry of the list SupportedPlatforms returns is matched by an
\* entry of the denylist (an entry matches when each of its non-empty
\* fields equals the platform's field).
C16_NoDeniedPlatform ==
    plat.pc = "returned" =>
        \A i \in DOMAIN plat.res : \A k \in DOMAIN plat.skip :
            ~SkipMatches(plat.skip[k], plat.res[i])

\* Two adjacent ARM entries of the expansion are denied, others are returned
C16_Witness ==
    /\ plat.pc = "returned"
    /\ plat.out = << PlatformCgo("linux", "amd64", "", TRUE),
                     PlatformCgo("linux", "arm", "", TRUE) >>
    /\ plat.skip = << Platform("", "arm", "6"), Platform("linux", "", "5") >>
    /\ plat.res = << PlatformCgo("linux", "amd64", "", TRUE),
                     PlatformCgo("linux", "arm", "7", TRUE) >>

\* C17: for every denylist, the empty one included, the list returned has
\* no entry with ARM "5" whose OS is not linux.
C17_NoARM5OffLinux ==
    plat.pc = "returned" =>
        \A i \in DOMAIN plat.res :
            ~(plat.res[i].ARM = "5" /\ plat.res[i].OS # "linux")

\* The entries that stand for toolchain entry p: ARM 5, 6 and 7 with the
\* os and the cgo flag of p when p is an arm entry without variant, p itself
\* otherwise
Variants(p) ==
    IF p.Arch = "arm" /\ p.ARM = ""
    THEN << PlatformCgo(p.OS, "arm", "5", p.Cgo), PlatformCgo(p.OS, "arm", "6", p.Cgo),
            PlatformCgo(p.OS, "arm", "7", p.Cgo) >>
    ELSE <<p>>

RECURSIVE Expanded(_)
Expanded(list) ==
    IF list = <<>> THEN <<>> ELSE Variants(Head(list)) \o Expanded(Tail(list))

\* The list without the entries the removal takes out, in its order
RECURSIVE Kept(_, _)
Kept(list, skip) ==
    IF list = <<>> THEN <<>>
    ELSE IF SkipLoopRemoves(Head(list), skip) THEN Kept(Tail(list), skip)
    ELSE <<Head(list)>> \o Kept(Tail(list), skip)

\* C29: the list returned is the toolchain list with every arm entry
\* without variant replaced, in place, by its entries for ARM 5, 6 and 7
\* (same os, same cgo flag) and every other entry as it is, less the
\* entries removed, in the same order.
C29_ExpansionThenRemoval ==
    plat.pc = "returned" => plat.res = Kept(Expanded(plat.out), plat.skip)

C29_Witness ==
    /\ plat.pc = "returned"
    /\ plat.out = << PlatformCgo("freebsd", "arm", "", FALSE),
                     PlatformCgo("linux", "arm", "", TRUE) >>
    /\ plat.skip = << Platform("", "arm", "6") >>
    /\ plat.res = << PlatformCgo("freebsd", "arm", "7", FALSE),
                     PlatformCgo("linux", "arm", "5", TRUE),
                     PlatformCgo("linux", "arm", "7", TRUE) >>

\* ------------------------------------------------------------------------
\* Open(caddyVersion, plugins) followed by Build(plat, outputFolder): the
\* name of the archive.  A version is the sequence of its characters; the
\* other pieces of the name are kept whole.
\* ------------------------------------------------------------------------
MaxPlugins == 2       \* length of the plugin list given to Open

BuildVersions ==
    { <<>>, <<"v", "1">>, <<"v", "0", ".", "1", "0", ".", "0", "-", "r", "c">>,
      <<"1", "2", "3", "4", "5", "6", "7", "8">>,
      <<"1", "2", "3", "4", "5", "6", "7", "8", "9">>,
      <<"0", "1", "2", "3", "4", "5", "6", "7", "8", "9", "a", "b">> }
Master == <<"m", "a", "s", "t", "e", "r">>
PluginVersion == <<"p", "1">>
OtherVersion == <<"p", "2">>
BuildPlugins ==
    { [Package |-> pk, Version |-> v] : pk \in Pkgs, v \in {PluginVersion, OtherVersion} }
BuildPlatforms ==
    { Platform(os, arch, arm) : os \in {"", "linux", "windows", "darwin"},
                                arch \in {"", "amd64", "arm"}, arm \in {"", "7"} }

\* be.pkgs as Open fills it: the plugins in the order of the list, then
\* CaddyPackage with caddyVersion, "master" when that is empty
RECURSIVE PutPlugins(_, _)
PutPlugins(m, plugins) ==
    IF plugins = <<>> THEN m
    ELSE LET pl == Head(plugins) IN
         PutPlugins([k \in (DOMAIN m) \cup {pl.Package} |->
                        IF k = pl.Package THEN pl.Version ELSE m[k]],
                    Tail(plugins))

\* Variant of OpenMap: CaddyPackage is put first, the plugins after it
OpenMapCoreFirst(caddyVersion, plugins) ==
    LET v == IF caddyVersion = <<>> THEN Master ELSE caddyVersion IN
    PutPlugins([k \in {CaddyPackage} |-> v], plugins)

OpenMap(caddyVersion, plugins) ==
    LET m == PutPlugins([k \in {} |-> <<>>], plugins)
        v == IF caddyVersion = <<>> THEN Master ELSE caddyVersion IN
    [k \in (DOMAIN m) \cup {CaddyPackage} |-> IF k = CaddyPackage THEN v ELSE m[k]]

Str(x) == IF x = "" THEN <<>> ELSE <<x>>

\* Variant of CutVersion: versions that start with "v" are cut too
CutVersionAlways(caddyVer) ==
    IF Len(caddyVer) > 8 THEN SubSeq(caddyVer, 1, 8) ELSE caddyVer

\* `if !strings.HasPrefix(caddyVer, "v") && len(caddyVer) > 8`
CutVersion(caddyVer) ==
    IF ~(Len(caddyVer) >= 1 /\ caddyVer[1] = "v") /\ Len(caddyVer) > 8
    THEN SubSeq(caddyVer, 1, 8) ELSE caddyVer

\* outputName of Build, and the extension of finalOutputPath
OutputName(m, p) ==
    LET caddyVer == IF CaddyPackage \in DOMAIN m THEN m[CaddyPackage] ELSE Master
        n1 == <<"caddy_">> \o CutVersion(caddyVer) \o <<"_">> \o Str(p.OS)
                  \o <<"_">> \o Str(p.Arch)
        n2 == IF p.Arch = "arm" THEN n1 \o Str(p.ARM) ELSE n1
        n3 == IF Cardinality(DOMAIN m) > 1 THEN n2 \o <<"_custom">> ELSE n2
        compressZip == p.OS = "windows" \/ p.OS = "darwin" IN
    IF compressZip THEN n3 \o <<".zip">> ELSE n3 \o <<".tar.gz">>

BuildInit ==
    /\ bld \in [pc : {"open"}, caddyVersion : BuildVersions,
                plugins : SeqsUpTo(BuildPlugins, MaxPlugins), plat : BuildPlatforms,
                fails : BOOLEAN, pkgs : {<<>>}, err : {<<>>}, name : {<<>>}]
    /\ UidGid = 0 - 1
    /\ Quiet
    /\ dep = Off /\ ser = Off /\ plat = Off /\ sgn = Off
    /\ rt = Off /\ cmd = Off /\ plg = Off /\ prv = Off /\ cp = Off /\ rst = Off

\* Open returns the BuildEnv with its package map
BuildOpen ==
    /\ bld.pc = "open"
    /\ bld' = [bld EXCEPT !.pc = "build",
                          !.pkgs = OpenMap(bld.caddyVersion, bld.plugins)]
    /\ UNCHANGED <<svars, dep, ser, plat, sgn, rt, cmd, plg, prv, cp, rst>>

\* Build: no OS or no arch is an error, and so is a failing plug-in,
\* compile or compression (bld.fails); otherwise the archive is created
BuildArchive ==
    /\ bld.pc = "build"
    /\ bld' = IF bld.plat.OS = "" \/ bld.plat.Arch = ""
              THEN [bld EXCEPT !.pc = "returned", !.err = <<"missing required information">>]
              ELSE IF bld.fails
              THEN [bld EXCEPT !.pc = "returned", !.err = <<"build">>]
              ELSE [bld EXCEPT !.pc = "returned", !.name = OutputName(bld.pkgs, bld.plat)]
    /\ UNCHANGED <<svars, dep, ser, plat, sgn, rt, cmd, plg, prv, cp, rst>>

BuildNext == BuildOpen \/ BuildArchive

SpecBuild == BuildInit /\ [][BuildNext]_vars

\* Build returned an archive
Built == bld.pc = "returned" /\ bld.err = <<>>

\* The core version of the request: "master" when none is given
CoreVersion == IF bld.caddyVersion = <<>> THEN Master ELSE bld.caddyVersion

\* The last place of package k in the plugin list, 0 if it is not listed
LastListed(plugins, k) ==
    IF \E i \in DOMAIN plugins : plugins[i].Package = k
    THEN CHOOSE i \in DOMAIN plugins :
            /\ plugins[i].Package = k
            /\ \A j \in DOMAIN plugins : plugins[j].Package = k => j <= i
    ELSE 0

\* C37: the package map of Open holds CaddyPackage with the requested
\* version, or "master" when none was requested, whatever the plugin list
\* names; it holds every other listed package with the version of its last
\* entry in the list; and it holds nothing else.
C37_OpenVersionMap ==
    bld.pc \in {"build", "returned"} =>
        /\ CaddyPackage \in DOMAIN bld.pkgs
        /\ bld.pkgs[CaddyPackage] =
              IF bld.caddyVersion = <<>> THEN <<"m", "a", "s", "t", "e", "r">>
              ELSE bld.caddyVersion
        /\ \A i \in DOMAIN bld.plugins : bld.plugins[i].Package \in DOMAIN bld.pkgs
        /\ \A k \in (DOMAIN bld.pkgs) \ {CaddyPackage} :
              /\ LastListed(bld.plugins, k) > 0
              /\ bld.pkgs[k] = bld.plugins[LastListed(bld.plugins, k)].Version

\* Open was given no core version and a list that names the plugin package
\* twice; another reachable list names the Core package
C37_Witness ==
    /\ bld.pc = "build" /\ bld.caddyVersion = <<>>
    /\ bld.plugins = << [Package |-> CaddyPackage, Version |-> OtherVersion],
                        [Package |-> PluginPackage, Version |-> PluginVersion] >>
    /\ bld.pkgs[CaddyPackage] = Master
    /\ bld.pkgs[PluginPackage] = PluginVersion

\* C18: the archive is named "caddy" "_" ver "_" os "_" arch [arm]
\* ["_custom"] ext, where ver is the first 8 characters of the core version
\* when that is longer than 8 and does not start with "v" and the whole
\* core version otherwise, arm is present only for arch arm, and ext is
\* .zip for windows and darwin and .tar.gz for every other os.
C18_ArchiveName ==
    Built =>
        LET v == CoreVersion
            ver == IF Len(v) > 8 /\ Head(v) # "v"
                   THEN [i \in 1..8 |-> v[i]] ELSE v
            arm == IF bld.plat.Arch = "arm" THEN Str(bld.plat.ARM) ELSE <<>>
            ext == IF bld.plat.OS \in {"windows", "darwin"} THEN ".zip" ELSE ".tar.gz"
            stem == <<"caddy_">> \o ver \o <<"_", bld.plat.OS, "_", bld.plat.Arch>> \o arm IN
        bld.name \in { stem \o <<ext>>, stem \o <<"_custom", ext>> }

C18_Witness ==
    /\ Built
    /\ Len(bld.caddyVersion) = 12
    /\ bld.plat = Platform("darwin", "arm", "7")
    /\ bld.name = <<"caddy_", "0", "1", "2", "3", "4", "5", "6", "7", "_", "darwin",
                    "_", "arm", "7", ".zip">>

\* C19: the name of the archive has the "_custom" marker exactly when Open
\* was given a non-empty plugin list.
C19_CustomIffPlugins ==
    Built =>
        ((\E i \in DOMAIN bld.name : bld.name[i] = "_custom") <=> bld.plugins # <<>>)

\* ------------------------------------------------------------------------
\* httpBuild from the call of be.Build on: sign the archive and stream the
\* multipart response.  sgn.Signer is the configured key (0 = nil),
\* sgn.file the bytes of the archive file, sgn.offset the read position of
\* the open file, sgn.fails the calls that return an error, sgn.status the
\* status line sent (0 = none yet), sgn.parts the form files written and
\* sgn.text the plain text written by http.Error.
\* ------------------------------------------------------------------------
Signers == {0, 1}
Archives == { <<1>>, <<1, 2>>, <<2, 1, 2>> }
HttpBuildCalls ==
    {"build", "sign", "seek", "sigpart", "sigcopy", "arcpart", "arccopy", "close"}

\* The rest of the file from the read position
Rest(file, offset) == SubSeq(file, offset + 1, Len(file))

\* openpgp.ArmoredDetachSign(buf, Signer, file, nil): the signature by
\* key over the bytes read
DetachSign(key, bytes) == [key |-> key, over |-> bytes]

\* internalErr: http.Error(w, "internal error", 500); the status line is
\* written only if none was sent before
InternalErr(r) ==
    [r EXCEPT !.pc = "returned", !.text = "internal error",
              !.status = IF @ = 0 THEN 500 ELSE @]

\* A write to the response body sends the status line 200 if none was sent
Wrote(r) == [r EXCEPT !.status = IF @ = 0 THEN 200 ELSE @]

HttpBuildInit ==
    /\ sgn \in [pc : {"build"}, Signer : Signers, file : Archives,
                fails : SUBSET HttpBuildCalls, offset : {0}, sig : {<<>>},
                status : {0}, parts : {<<>>}, text : {""}]
    /\ UidGid = 0 - 1
    /\ Quiet
    /\ dep = Off /\ ser = Off /\ plat = Off /\ bld = Off
    /\ rt = Off /\ cmd = Off /\ plg = Off /\ prv = Off /\ cp = Off /\ rst = Off

\* outputFile, err := be.Build(plat, tmpdir): 400 with the JSON error
HttpBuildBuild ==
    /\ sgn.pc = "build"
    /\ sgn' = IF "build" \in sgn.fails
              THEN [sgn EXCEPT !.pc = "returned", !.status = 400, !.text = "json"]
              ELSE [sgn EXCEPT !.pc = "sign"]
    /\ UNCHANGED <<svars, dep, ser, plat, bld, rt, cmd, plg, prv, cp, rst>>

\* signatureBuf, err := buildworker.Sign(outputFile): an error when Signer
\* is nil or ArmoredDetachSign fails; the file is read to its end
HttpBuildSign ==
    /\ sgn.pc = "sign"
    /\ sgn' = IF sgn.Signer = 0 THEN InternalErr(sgn)
              ELSE IF "sign" \in sgn.fails
              THEN InternalErr([sgn EXCEPT !.offset = Len(sgn.file)])
              ELSE [sgn EXCEPT !.pc = "seek",
                               !.sig = <<DetachSign(sgn.Signer, Rest(sgn.file, sgn.offset))>>,
                               !.offset = Len(sgn.file)]
    /\ UNCHANGED <<svars, dep, ser, plat, bld, rt, cmd, plg, prv, cp, rst>>

\* Variant of SeekStart: the read position stays where it is
SeekNowhere(offset) == offset

\* outputFile.Seek(0, 0)
SeekStart(offset) == 0

HttpBuildSeek ==
    /\ sgn.pc = "seek"
    /\ sgn' = IF "seek" \in sgn.fails THEN InternalErr(sgn)
              ELSE [sgn EXCEPT !.pc = "sigpart", !.offset = SeekStart(@)]
    /\ UNCHANGED <<svars, dep, ser, plat, bld, rt, cmd, plg, prv, cp, rst>>

\* writer.CreateFormFile("signature", signatureName)
HttpBuildSigPart ==
    /\ sgn.pc = "sigpart"
    /\ sgn' = IF "sigpart" \in sgn.fails THEN InternalErr(sgn)
              ELSE Wrote([sgn EXCEPT !.pc = "sigcopy",
                                     !.parts = Append(@, [field |-> "signature",
                                                          data |-> <<>>])])
    /\ UNCHANGED <<svars, dep, ser, plat, bld, rt, cmd, plg, prv, cp, rst>>

\* io.Copy(part, signatureBuf)
HttpBuildSigCopy ==
    /\ sgn.pc = "sigcopy"
    /\ sgn' = IF "sigcopy" \in sgn.fails THEN InternalErr(sgn)
              ELSE [sgn EXCEPT !.pc = "arcpart", !.parts[Len(sgn.parts)].data = sgn.sig]
    /\ UNCHANGED <<svars, dep, ser, plat, bld, rt, cmd, plg, prv, cp, rst>>

\* writer.CreateFormFile("archive", name)
HttpBuildArcPart ==
    /\ sgn.pc = "arcpart"
    /\ sgn' = IF "arcpart" \in sgn.fails THEN InternalErr(sgn)
              ELSE [sgn EXCEPT !.pc = "arccopy",
                               !.parts = Append(@, [field |-> "archive", data |-> <<>>])]
    /\ UNCHANGED <<svars, dep, ser, plat, bld, rt, cmd, plg, prv, cp, rst>>

\* io.Copy(part, outputFile): the file from its read position; a failing
\* copy may have written a part of it
HttpBuildArcCopy ==
    /\ sgn.pc = "arccopy"
    /\ LET rest == Rest(sgn.file, sgn.offset) IN
       IF "arccopy" \in sgn.fails
       THEN \E n \in 0..Len(rest) :
               sgn' = InternalErr([sgn EXCEPT !.parts[Len(sgn.parts)].data = SubSeq(rest, 1, n),
                                              !.offset = @ + n])
       ELSE sgn' = [sgn EXCEPT !.pc = "close", !.parts[Len(sgn.parts)].data = rest,
                               !.offset = Len(sgn.file)]
    /\ UNCHANGED <<svars, dep, ser, plat, bld, rt, cmd, plg, prv, cp, rst>>

\* writer.Close()
HttpBuildClose ==
    /\ sgn.pc = "close"
    /\ sgn' = IF "close" \in sgn.fails THEN InternalErr(sgn)
              ELSE [sgn EXCEPT !.pc = "returned"]
    /\ UNCHANGED <<svars, dep, ser, plat, bld, rt, cmd, plg, prv, cp, rst>>

HttpBuildNext ==
    \/ HttpBuildBuild \/ HttpBuildSign \/ HttpBuildSeek \/ HttpBuildSigPart
    \/ HttpBuildSigCopy \/ HttpBuildArcPart \/ HttpBuildArcCopy \/ HttpBuildClose

SpecHttpBuild == HttpBuildInit /\ [][HttpBuildNext]_vars

\* The handler returned without calling internalErr or answering 400
Streamed == sgn.pc = "returned" /\ sgn.text = ""

\* C20: an archive part is written only after the signature part, which
\* holds the signature by the configured key over the whole archive file,
\* and holds bytes of that file; when no key is configured or signing
\* fails the handler answers 500 and writes no part; a response streamed to
\* its end has the signature part, then the archive part with the whole
\* file.
C20_NeverUnsigned ==
    /\ \A i \in DOMAIN sgn.parts :
          sgn.parts[i].field = "archive" =>
              /\ i = 2 /\ sgn.Signer # 0
              /\ sgn.parts[1].field = "signature"
              /\ sgn.parts[1].data = <<DetachSign(sgn.Signer, sgn.file)>>
              /\ \E n \in 0..Len(sgn.file) : sgn.parts[i].data = SubSeq(sgn.file, 1, n)
    /\ (sgn.pc = "returned" /\ "build" \notin sgn.fails
            /\ (sgn.Signer = 0 \/ "sign" \in sgn.fails))
          => sgn.status = 500 /\ sgn.parts = <<>>
    /\ Streamed =>
          /\ Len(sgn.parts) = 2
          /\ sgn.parts[1] = [field |-> "signature",
                             data |-> <<DetachSign(sgn.Signer, sgn.file)>>]
          /\ sgn.parts[2] = [field |-> "archive", data |-> sgn.file]

C20_Witness ==
    /\ Streamed /\ sgn.Signer = 1 /\ sgn.status = 200
    /\ sgn.file = <<2, 1, 2>> /\ sgn.parts[2].data = <<2, 1, 2>>

\* ------------------------------------------------------------------------
\* One request through the chain addRoute builds for a route:
\* methodHandler(method, maxSizeHandler(authHandler(h))).  rt.ClientID and
\* rt.ClientKey are BUILDWORKER_CLIENT_ID and BUILDWORKER_CLIENT_KEY ("" =
\* unset), rt.auth the Basic credentials of the request (NoAuth = no
\* Authorization header), rt.status the status answered (0 = none yet) and
\* rt.reached whether the endpoint's handler was called.
\* ------------------------------------------------------------------------
Routes ==
    { [path |-> "/deploy-caddy", method |-> "POST"],
      [path |-> "/deploy-plugin", method |-> "POST"],
      [path |-> "/build", method |-> "POST"],
      [path |-> "/supported-platforms", method |-> "GET"] }

NoAuth == [ok |-> FALSE, username |-> "", password |-> ""]
Authorizations ==
    {NoAuth} \cup { [ok |-> TRUE, username |-> u, password |-> p] :
                      u \in {"", "id", "other"}, p \in {"", "key", "guess"} }

\* sha1 of a string: equal digests for equal strings only
Sha1(str) == [sha1 |-> str]

\* hash.Write([]byte(envPassword)); apiPassword = hash.Sum(nil)
setAPICredentials(id, key) == [apiUsername |-> id, apiPassword |-> Sha1(key)]

\* subtle.ConstantTimeCompare(sha1(pwd), apiPassword) == 1
correctPassword(pwd, apiPassword) == Sha1(pwd) = apiPassword

\* http.Error(w, text, code) and return
Answer(r, code) == [r EXCEPT !.pc = "done", !.status = code]

RouteInit ==
    /\ rt \in { [pc |-> "method", route |-> ro, Method |-> m, longQuery |-> q,
                 auth |-> a, ClientID |-> id, ClientKey |-> key,
                 api |-> setAPICredentials(id, key),
                 status |-> 0, reached |-> FALSE] :
                 ro \in Routes, m \in {"GET", "POST"}, q \in BOOLEAN,
                 a \in Authorizations, id \in {"", "id"}, key \in {"", "key"} }
    /\ UidGid = 0 - 1
    /\ Quiet
    /\ dep = Off /\ ser = Off /\ plat = Off /\ bld = Off /\ sgn = Off
    /\ cmd = Off /\ plg = Off /\ prv = Off /\ cp = Off /\ rst = Off

\* methodHandler: `if r.Method != method` answers 405
RouteMethod ==
    /\ rt.pc = "method"
    /\ rt' = IF rt.Method # rt.route.method THEN Answer(rt, 405)
             ELSE [rt EXCEPT !.pc = "size"]
    /\ UNCHANGED <<svars, dep, ser, plat, bld, sgn, cmd, plg, prv, cp, rst>>

\* maxSizeHandler: `if len(r.URL.RawQuery) > MaxQueryStringLength` answers 414
RouteMaxSize ==
    /\ rt.pc = "size"
    /\ rt' = IF rt.longQuery THEN Answer(rt, 414) ELSE [rt EXCEPT !.pc = "auth"]
    /\ UNCHANGED <<svars, dep, ser, plat, bld, sgn, cmd, plg, prv, cp, rst>>

\* authHandler: `username, password, _ := r.BasicAuth()`; without a header
\* both are empty
RouteAuth ==
    /\ rt.pc = "auth"
    /\ LET username == rt.auth.username
           password == rt.auth.password IN
       rt' = IF username # rt.api.apiUsername
                  \/ ~correctPassword(password, rt.api.apiPassword)
             THEN Answer(rt, 401)
             ELSE [rt EXCEPT !.pc = "handler"]
    /\ UNCHANGED <<svars, dep, ser, plat, bld, sgn, cmd, plg, prv, cp, rst>>

\* h.ServeHTTP(w, r): the endpoint's handler runs and answers
RouteHandler ==
    /\ rt.pc = "handler"
    /\ \E code \in {200, 400, 500} :
          rt' = [Answer(rt, code) EXCEPT !.reached = TRUE]
    /\ UNCHANGED <<svars, dep, ser, plat, bld, sgn, cmd, plg, prv, cp, rst>>

RouteNext == RouteMethod \/ RouteMaxSize \/ RouteAuth \/ RouteHandler

SpecRoute == RouteInit /\ [][RouteNext]_vars

\* The request carries the configured client id and client key
RightCredentials ==
    rt.auth.ok /\ rt.auth.username = rt.ClientID /\ rt.auth.password = rt.ClientKey

\* C21: a request that does not carry the configured credentials (no
\* Authorization header, or another user name or password) never has the
\* endpoint's handler called, and when it has the route's method and a
\* query within the limit it is answered 401.
C21_UnauthorizedNeverServed ==
    (rt.pc = "done" /\ ~RightCredentials) =>
        /\ ~rt.reached
        /\ (rt.Method = rt.route.method /\ ~rt.longQuery) => rt.status = 401

\* ------------------------------------------------------------------------
\* One child process spawned while serving Open, Build or Deploy, from the
\* creation of its exec.Cmd to its start.  cmd.site is the function that
\* spawns it, cmd.pkg the package it works on, cmd.Chroot the -chroot flag
\* ("" = none), cmd.Cmd the exec.Cmd and cmd.child the process started.  A
\* path is the sequence of its elements (<<>> = the empty string).
\* ------------------------------------------------------------------------
NewCommandSites ==
    {"fillMasterGopath", "goGet", "gitFetch", "gitCheckout", "goVet", "goTest",
     "UpdateMasterGopath", "goBuildChecks", "buildCaddy"}
ExecCommandSites == {"makeLdFlags"}
CommandSites == NewCommandSites \cup ExecCommandSites
\* The sites that append to cmd.Env
EnvSites == {"goBuildChecks", "buildCaddy"}

ChrootValues == {<<>>, <<"/", "jail">>}
RootDir == <<"/">>
WorkDir == <<"/", "srv">>                    \* the server's working directory
TmpGopath == <<"/", "tmp", "gopath_1">>      \* be.tmpGopath
MasterGopath == <<"/", "gopath">>            \* be.masterGopath

\* The environment of the server: os.Environ()
ParentEnv ==
    << [name |-> "GOPATH", value |-> MasterGopath],
       [name |-> "PATH", value |-> <<"/", "bin">>],
       [name |-> "TMPDIR", value |-> <<"/", "tmp">>],
       [name |-> "HOME", value |-> <<"/", "root">>],
       [name |-> "BUILDWORKER_CLIENT_KEY", value |-> <<"key">>] >>

Getenv(n) ==
    IF \E i \in DOMAIN ParentEnv : ParentEnv[i].name = n
    THEN ParentEnv[CHOOSE i \in DOMAIN ParentEnv : ParentEnv[i].name = n].value
    ELSE <<>>

\* filepath.Join(be.tmpGopath, "src", pkg)
TemporaryPath(pkg) == TmpGopath \o <<"src", pkg>>

NoSysProcAttr == [set |-> FALSE, Chroot |-> <<>>, Setsid |-> FALSE, Credential |-> 0 - 1]

\* exec.Command(command, args...): no environment, directory or attributes set
ExecCommand == [EnvSet |-> FALSE, Env |-> <<>>, Dir |-> <<>>, SysProcAttr |-> NoSysProcAttr]

\* be.newCommand(command, args...)
newCommand(chroot, uidgid) ==
    LET c1 == [ExecCommand EXCEPT
                  !.EnvSet = TRUE,
                  !.Env = << [name |-> "GOPATH", value |-> TmpGopath \o <<":">> \o MasterGopath],
                             [name |-> "PATH", value |-> Getenv("PATH")],
                             [name |-> "TMPDIR", value |-> Getenv("TMPDIR")] >>]
        c2 == IF chroot # <<>>
              THEN [c1 EXCEPT !.SysProcAttr = [NoSysProcAttr EXCEPT !.set = TRUE,
                                                                    !.Chroot = chroot],
                              !.Dir = RootDir]
              ELSE c1 IN
    IF uidgid > 0 - 1
    THEN [c2 EXCEPT !.SysProcAttr.set = TRUE, !.SysProcAttr.Setsid = TRUE,
                    !.SysProcAttr.Credential = uidgid]
    ELSE c2

\* setEnvGopath(env, to): the first GOPATH entry is set to `to`
setEnvGopath(env, to) ==
    IF \E i \in DOMAIN env : env[i].name = "GOPATH"
    THEN LET k == CHOOSE i \in DOMAIN env :
                     env[i].name = "GOPATH" /\ \A j \in 1..(i - 1) : env[j].name # "GOPATH" IN
         [env EXCEPT ![k].value = to]
    ELSE env

\* The variables goBuildChecks and buildCaddy append
BuildVars ==
    << [name |-> "CGO_ENABLED", value |-> <<"0">>], [name |-> "GOOS", value |-> <<"linux">>],
       [name |-> "GOARCH", value |-> <<"amd64">>], [name |-> "GOARM", value |-> <<>>] >>

\* cmd.Dir after the caller's assignment
SiteDir(site, pkg, dir) ==
    IF site \in {"gitFetch", "gitCheckout", "goVet", "goTest"} THEN TemporaryPath(pkg)
    ELSE IF site = "buildCaddy" THEN TemporaryPath(CaddyPackage) \o <<"caddy">>
    ELSE IF site = "makeLdFlags" THEN TemporaryPath(CaddyPackage)
    ELSE dir

\* cmd.Env after the caller's changes
SiteEnv(site, env) ==
    IF site \in {"fillMasterGopath", "UpdateMasterGopath"} THEN setEnvGopath(env, MasterGopath)
    ELSE IF site \in EnvSites THEN env \o BuildVars
    ELSE env

\* os/exec starting the process: a nil Env is the environment of the
\* parent, an empty Dir its working directory, no Credential its uid and
\* gid, no Chroot its root
StartProcess(c, parentUid) ==
    [env |-> IF c.EnvSet THEN c.Env ELSE ParentEnv,
     inherited |-> ~c.EnvSet,
     dir |-> IF c.Dir = <<>> THEN WorkDir ELSE c.Dir,
     root |-> IF c.SysProcAttr.set /\ c.SysProcAttr.Chroot # <<>>
              THEN c.SysProcAttr.Chroot ELSE RootDir,
     uid |-> IF c.SysProcAttr.set /\ c.SysProcAttr.Credential > 0 - 1
             THEN c.SysProcAttr.Credential ELSE parentUid,
     gid |-> IF c.SysProcAttr.set /\ c.SysProcAttr.Credential > 0 - 1
             THEN c.SysProcAttr.Credential ELSE parentUid]

NoChild == [env |-> <<>>, inherited |-> FALSE, dir |-> <<>>, root |-> <<>>,
            uid |-> 0 - 1, gid |-> 0 - 1]

CommandInit ==
    /\ cmd \in [pc : {"new"}, site : CommandSites, pkg : Pkgs, Chroot : ChrootValues,
                Cmd : {ExecCommand}, child : {NoChild}]
    /\ UidGid \in UidGidValues
    /\ Quiet
    /\ dep = Off /\ ser = Off /\ plat = Off /\ bld = Off /\ sgn = Off
    /\ rt = Off /\ plg = Off /\ prv = Off /\ cp = Off /\ rst = Off

\* The command is created: by be.newCommand, by exec.Command in makeLdFlags
CommandNew ==
    /\ cmd.pc = "new"
    /\ cmd' = [cmd EXCEPT !.pc = "adjust",
                          !.Cmd = IF cmd.site \in NewCommandSites
                                  THEN newCommand(cmd.Chroot, UidGid)
                                  ELSE ExecCommand]
    /\ UNCHANGED <<svars, dep, ser, plat, bld, sgn, rt, plg, prv, cp, rst>>

\* The caller sets cmd.Dir, changes or extends cmd.Env
CommandAdjust ==
    /\ cmd.pc = "adjust"
    /\ cmd' = [cmd EXCEPT !.pc = "run",
                          !.Cmd.Dir = SiteDir(cmd.site, cmd.pkg, @),
                          !.Cmd.Env = SiteEnv(cmd.site, @)]
    /\ UNCHANGED <<svars, dep, ser, plat, bld, sgn, rt, plg, prv, cp, rst>>

\* be.runCommand(cmd) / cmd.Output(): the child starts; the server runs as root
CommandRun ==
    /\ cmd.pc = "run"
    /\ cmd' = [cmd EXCEPT !.pc = "started", !.child = StartProcess(cmd.Cmd, 0)]
    /\ UNCHANGED <<svars, dep, ser, plat, bld, sgn, rt, plg, prv, cp, rst>>

CommandNext == CommandNew \/ CommandAdjust \/ CommandRun

SpecCommand == CommandInit /\ [][CommandNext]_vars

EnvNames(env) == { env[i].name : i \in DOMAIN env }

\* C23: every child runs with an environment that is not the server's and
\* holds GOPATH, PATH and TMPDIR and, besides, only the variables its
\* caller appended; with a uid/gid and a chroot configured it runs as that
\* uid and gid with the chroot as its root.
C23_ChildEnvironmentAndJail ==
    cmd.pc = "started" =>
        /\ ~cmd.child.inherited
        /\ {"GOPATH", "PATH", "TMPDIR"} \subseteq EnvNames(cmd.child.env)
        /\ EnvNames(cmd.child.env) \subseteq
              {"GOPATH", "PATH", "TMPDIR"} \cup
              (IF cmd.site \in EnvSites THEN EnvNames(BuildVars) ELSE {})
        /\ (UidGid > 0 - 1 /\ cmd.Chroot # <<>>) =>
              /\ cmd.child.uid = UidGid /\ cmd.child.gid = UidGid
              /\ cmd.child.root = cmd.Chroot

\* C30: with a chroot configured, every child starts with "/" as its
\* working directory.
C30_ChildStartsAtRoot ==
    (cmd.pc = "started" /\ cmd.Chroot # <<>>) => cmd.child.dir = RootDir

\* ------------------------------------------------------------------------
\* plugInThePlugin applied to caddy/caddymain/run.go of one workspace.  The
\* file is its list of import specs (name "" = plain, "_" = for side
\* effects), whether it has comments and whether it is whole Go source.
\* plg.todo are the packages still to inject, plg.did the packages injected.
\* ------------------------------------------------------------------------
MaxInjections == 3    \* number of calls of plugInThePlugin on one workspace

Import(name, path) == [name |-> name, path |-> path]
RunGoFiles ==
    { [imports |-> is, comments |-> c, whole |-> TRUE] :
        is \in { << Import("", "os"), Import("_", "caddyhttp") >>,
                 << Import("", "os"), Import("_", PluginPackage) >> },
        c \in BOOLEAN }
Truncated == [imports |-> <<>>, comments |-> FALSE, whole |-> FALSE]

\* parser.ParseFile(fset, file, nil, 0): mode 0 keeps no comments
ParseFile(file) == [imports |-> file.imports]

\* printer.Fprint(&buf, fset, f): source text of the tree
Fprint(f) == [imports |-> f.imports, comments |-> FALSE, whole |-> TRUE]

\* astutil: whether f has an import with the given name and path
Imports(f, name, path) ==
    \E i \in DOMAIN f.imports : f.imports[i] = Import(name, path)

\* The trees after a new import spec is put into the import declaration
Inserted(f, name, path) ==
    { [f EXCEPT !.imports = SubSeq(@, 1, k) \o <<Import(name, path)>>
                                \o SubSeq(@, k + 1, Len(@))] : k \in 0..Len(f.imports) }

\* Variant of AddNamedImport: the import is added without looking for it
AddNamedImportAlways(f, name, path) == Inserted(f, name, path)

\* astutil.AddNamedImport(fset, f, name, path): adds the import if absent
AddNamedImport(f, name, path) ==
    IF Imports(f, name, path) THEN {f} ELSE Inserted(f, name, path)

PlugInInit ==
    /\ plg \in [pc : {"plug"}, file : RunGoFiles,
                todo : SeqsUpTo({PluginPackage, OtherPackage}, MaxInjections),
                did : {<<>>}, err : {<<>>}]
    /\ UidGid = 0 - 1
    /\ Quiet
    /\ dep = Off /\ ser = Off /\ plat = Off /\ bld = Off /\ sgn = Off
    /\ rt = Off /\ cmd = Off /\ prv = Off /\ cp = Off /\ rst = Off

\* be.plugInThePlugin(pkg) for the next package: parse, add the import,
\* print to a buffer, write the file.  A failing parse or print leaves the
\* file as it is; a failing ioutil.WriteFile leaves it as it is or truncated.
plugInThePlugin ==
    /\ plg.pc = "plug" /\ plg.todo # <<>>
    /\ LET pkg == Head(plg.todo) IN
       \/ /\ plg.file.whole
          /\ \E f \in AddNamedImport(ParseFile(plg.file), "_", pkg) :
                plg' = [plg EXCEPT !.file = Fprint(f), !.todo = Tail(@),
                                   !.did = Append(@, pkg)]
       \/ \E e \in {"parsing file", "adding import"} :
             plg' = [plg EXCEPT !.pc = "failed", !.err = <<e>>]
       \/ /\ plg.file.whole
          /\ \E left \in {plg.file, Truncated} :
                plg' = [plg EXCEPT !.pc = "failed", !.err = <<"saving changed file">>,
                                   !.file = left]
    /\ UNCHANGED <<svars, dep, ser, plat, bld, sgn, rt, cmd, prv, cp, rst>>

\* The loop over the plugins has ended
PlugInDone ==
    /\ plg.pc = "plug" /\ plg.todo = <<>>
    /\ plg' = [plg EXCEPT !.pc = "done"]
    /\ UNCHANGED <<svars, dep, ser, plat, bld, sgn, rt, cmd, prv, cp, rst>>

PlugInNext == plugInThePlugin \/ PlugInDone

SpecPlugIn == PlugInInit /\ [][PlugInNext]_vars

\* Number of side-effect imports of package pkg in the file
SideEffectImports(file, pkg) ==
    Cardinality({ i \in DOMAIN file.imports : file.imports[i] = Import("_", pkg) })

\* C24: an injection of a package that was injected before leaves the file
\* as it was, and after every injection the file has exactly one
\* side-effect import of each package injected so far.
C24_InjectionIdempotent ==
    [][(plg.pc = "plug" /\ plg'.pc = "plug" /\ plg'.did # plg.did) =>
          /\ (\E i \in DOMAIN plg.did : plg.did[i] = Head(plg.todo))
                => plg'.file = plg.file
          /\ \A i \in DOMAIN plg'.did : SideEffectImports(plg'.file, plg'.did[i]) = 1]_vars

C24_Witness ==
    /\ plg.pc = "done"
    /\ plg.did = <<PluginPackage, OtherPackage, PluginPackage>>
    /\ Len(plg.file.imports) = 4

\* The files plugInThePlugin may print for package pkg from the file on disk
PrintedWith(file, pkg) ==
    { Fprint(f) : f \in AddNamedImport(ParseFile(file), "_", pkg) }

\* C31: after every call of plugInThePlugin the file has its original
\* contents or is the printed tree with the requested import added, and a
\* call that returns an error of parsing or printing leaves the file as it
\* was.
C31_InjectionAtomic ==
    [][(plg.pc = "plug" /\ plg.todo # <<>> /\ plg' # plg) =>
          /\ \/ plg'.file = plg.file
             \/ plg'.file \in PrintedWith(plg.file, Head(plg.todo))
          /\ (plg'.err # <<>> /\ plg'.err[1] \in {"parsing file", "adding import"})
                => plg'.file = plg.file]_vars

\* ------------------------------------------------------------------------
\* provision run twice on one BuildEnv.  A package is its import path as a
\* sequence of elements; prv.pkgs is be.pkgs (package -> version),
\* prv.repos the repositories of the temporary GOPATH (per repository root:
\* whether it is there, how often it was copied, the version checked out),
\* prv.left the packages the loop has not visited yet, prv.last the package
\* of the last git checkout run in each repository, prv.log the number of
\* log entries and prv.after1 the repositories when the first run returned.
\* ------------------------------------------------------------------------
pCaddy == <<"caddy">>
pRepoA == <<"repo", "a">>
pRepoB == <<"repo", "b">>
pPlug == <<"plug">>
ProvPlugins == {pRepoA, pRepoB, pPlug}
ProvVersions == {"v1", "v2"}

\* The directories of the master GOPATH that hold a .git folder
GitRoots == { <<"caddy">>, <<"repo">>, <<"plug">> }

\* RepoPath: from the package's folder up to the folder with .git
RECURSIVE RepoPath(_)
RepoPath(pkg) ==
    IF pkg \in GitRoots \/ pkg = <<>> THEN pkg
    ELSE RepoPath(SubSeq(pkg, 1, Len(pkg) - 1))

NoRepo == [exists |-> FALSE, copies |-> 0, version |-> ""]
NoPkg == <<>>

\* be.pkgs as Open fills it: the plugins at their versions and the Core
ProvMaps ==
    UNION { { [p \in ps \cup {pCaddy} |-> IF p = pCaddy THEN "v1" ELSE f[p]] :
                f \in [ps -> ProvVersions] } : ps \in SUBSET ProvPlugins }

\* Variant of CopyRepo: the repository is copied whether it is there or not
CopyRepoAlways(repos, root) ==
    [repos EXCEPT ![root] = [exists |-> TRUE, copies |-> @.copies + 1, version |-> "master"]]

\* `if !dirExists(destRepoPath) { deepCopy(srcRepoPath, destRepoPath, ...) }`:
\* the copy is at the version the master GOPATH has checked out
CopyRepo(repos, root) ==
    IF repos[root].exists THEN repos
    ELSE [repos EXCEPT ![root] = [exists |-> TRUE, copies |-> @.copies + 1,
                                  version |-> "master"]]

\* git checkout version, run in the package's folder: the whole repository
gitCheckout(repos, root, version) == [repos EXCEPT ![root].version = version]

ProvisionInit ==
    /\ prv \in [pc : {"fill"}, run : {1}, pkgs : ProvMaps, left : {{}},
                repos : {[r \in GitRoots |-> NoRepo]},
                last : {[r \in GitRoots |-> NoPkg]},
                log : {0}, err : {<<>>},
                after1 : {[r \in GitRoots |-> NoRepo]}]
    /\ UidGid = 0 - 1
    /\ Quiet
    /\ dep = Off /\ ser = Off /\ plat = Off /\ bld = Off /\ sgn = Off
    /\ rt = Off /\ cmd = Off /\ plg = Off /\ cp = Off /\ rst = Off

\* provision up to the loop: the temporary GOPATH is there already, then
\* fillMasterGopath; its error is returned
ProvisionFill ==
    /\ prv.pc = "fill"
    /\ \/ prv' = [prv EXCEPT !.pc = "loop", !.left = DOMAIN prv.pkgs, !.log = @ + 1]
       \/ prv' = [prv EXCEPT !.pc = "failed", !.err = <<"fill">>, !.log = @ + 1]
    /\ UNCHANGED <<svars, dep, ser, plat, bld, sgn, rt, cmd, plg, cp, rst>>

\* One iteration of `for pkg, version := range be.pkgs` (the order of a map
\* range is not fixed): copy, git fetch, git checkout, go get; the first
\* that fails is returned
ProvisionPkg ==
    /\ prv.pc = "loop"
    /\ \E pkg \in prv.left, failing \in {"", "copy", "fetch", "checkout", "goget"} :
         LET root == RepoPath(pkg)
             copied == CopyRepo(prv.repos, root)
             checked == gitCheckout(copied, root, prv.pkgs[pkg]) IN
         prv' = IF failing = "copy"
                THEN [prv EXCEPT !.pc = "failed", !.err = <<failing>>]
                ELSE IF failing = "fetch"
                THEN [prv EXCEPT !.pc = "failed", !.err = <<failing>>, !.repos = copied,
                                 !.log = @ + 1]
                ELSE IF failing = "checkout"
                THEN [prv EXCEPT !.pc = "failed", !.err = <<failing>>, !.repos = copied,
                                 !.log = @ + 2]
                ELSE [prv EXCEPT !.repos = checked, !.last[root] = pkg,
                                 !.log = @ + 3, !.left = @ \ {pkg},
                                 !.pc = IF failing = "" THEN "loop" ELSE "failed",
                                 !.err = IF failing = "" THEN <<>> ELSE <<failing>>]
    /\ UNCHANGED <<svars, dep, ser, plat, bld, sgn, rt, cmd, plg, cp, rst>>

\* The loop has ended: provision returns nil
ProvisionReturn ==
    /\ prv.pc = "loop" /\ prv.left = {}
    /\ prv' = [prv EXCEPT !.pc = "done",
                          !.after1 = IF prv.run = 1 THEN prv.repos ELSE @]
    /\ UNCHANGED <<svars, dep, ser, plat, bld, sgn, rt, cmd, plg, cp, rst>>

\* provision is called once more on the same BuildEnv
ProvisionAgain ==
    /\ prv.pc = "done" /\ prv.run = 1
    /\ prv' = [prv EXCEPT !.pc = "fill", !.run = 2]
    /\ UNCHANGED <<svars, dep, ser, plat, bld, sgn, rt, cmd, plg, cp, rst>>

ProvisionNext == ProvisionFill \/ ProvisionPkg \/ ProvisionReturn \/ ProvisionAgain

SpecProvision == ProvisionInit /\ [][ProvisionNext]_vars

\* The repositories that are there and the version each has checked out
CheckedOut(repos) ==
    [r \in { q \in GitRoots : repos[q].exists } |-> repos[r].version]

\* C25: when a second run of provision on the same BuildEnv has returned
\* nil, the workspace has the repositories it had after the first run,
\* each at the version it had checked out then; the log has grown.
C25_ProvisionIdempotent ==
    (prv.pc = "done" /\ prv.run = 2) =>
        /\ CheckedOut(prv.repos) = CheckedOut(prv.after1)
        /\ prv.log > 0

\* C26: when provision has returned nil, every repository of a package of
\* be.pkgs is in the workspace, was copied exactly once, and is checked out
\* at the version of the package whose git checkout ran last in it; this
\* covers two packages of one repository at different versions.
C26_LastCheckoutWins ==
    prv.pc = "done" =>
        \A pkg \in DOMAIN prv.pkgs :
            LET r == RepoPath(pkg) IN
            /\ prv.repos[r].exists /\ prv.repos[r].copies = 1
            /\ prv.last[r] \in DOMAIN prv.pkgs /\ RepoPath(prv.last[r]) = r
            /\ prv.repos[r].version = prv.pkgs[prv.last[r]]

C26_Witness ==
    /\ prv.pc = "done" /\ prv.run = 1
    /\ pRepoA \in DOMAIN prv.pkgs /\ pRepoB \in DOMAIN prv.pkgs
    /\ prv.pkgs[pRepoA] = "v1" /\ prv.pkgs[pRepoB] = "v2"
    /\ prv.last[<<"repo">>] = pRepoA
    /\ prv.repos[<<"repo">>] = [exists |-> TRUE, copies |-> 1, version |-> "v1"]

\* ------------------------------------------------------------------------
\* One call of deepCopy(cfg) on a source tree.  cp.src is the source tree,
\* cp.root the base name of cfg.Source, cp.linkDir whether the symbolic link
\* of the tree points to a directory, cp.dest the destination tree,
\* cp.copied the entries the walk function has written.
\* ------------------------------------------------------------------------
nHidden == <<".", "env">>

\* The entries a source tree can have: the GOPATH paths, a hidden file and a
\* regular file named testdata
CopyPaths == Paths \cup {CaddyDir \o <<nHidden>>, PlugDir \o <<nTestdata>>}

PrefixClosed(S) ==
    \A p \in S : p # <<>> => SubSeq(p, 1, Len(p) - 1) \in S

Tree(S, data) == [p \in S |-> IF IsDir(p) THEN 0 ELSE data]

SourceTrees ==
    { Tree(S \cup {<<>>, <<nSrc>>, CaddyDir}, 1) :
        S \in { T \in SUBSET (CopyPaths \ {<<>>, <<nSrc>>, CaddyDir, PlugDir \o <<nGit>>,
                                            PlugDir \o <<nGit, nHead>>}) :
                  PrefixClosed(T \cup {<<>>, <<nSrc>>, CaddyDir}) } }

\* The destination before the call: the new directory made by the prewalk,
\* or a directory that has a test file from an earlier copy
DestTrees ==
    { EmptyTree, Tree({<<>>, <<nSrc>>, CaddyDir, CaddyDir \o <<nRunTest>>}, 2) }

RootNames == { nMaster, nGit, nTestdata }

CopyConfigs ==
    [SkipHidden : BOOLEAN, SkipSymLinks : BOOLEAN, SkipTestFiles : BOOLEAN,
     PreserveOwner : {FALSE}]

\* The entries filepath.Walk visits before the link: it reads the names of
\* a directory sorted, ".git" and ".env" before "ln", "caddy" before "plug"
WalkedBeforeLink ==
    { <<>>, <<nSrc>>, CaddyDir, CaddyDir \o <<nGit>>, CaddyDir \o <<nGit, nHead>>,
      CaddyDir \o <<nHidden>> }

\* os.Open of a link to a directory succeeds and io.Copy from it fails
CopyFails(c) ==
    /\ c.linkDir
    /\ \E p \in Walk(c.src, c.cfg, <<>>, c.root) : IsSymlink(p)

CopyInit ==
    /\ cp \in [pc : {"call"}, src : SourceTrees, root : RootNames, cfg : CopyConfigs,
               linkDir : BOOLEAN, dest0 : DestTrees]
    /\ UidGid = 0 - 1
    /\ Quiet
    /\ dep = Off /\ ser = Off /\ plat = Off /\ bld = Off /\ sgn = Off
    /\ rt = Off /\ cmd = Off /\ plg = Off /\ prv = Off /\ rst = Off

\* deepCopy(cfg) returning nil: every entry the walk function does not skip
\* is written to the destination
CopyReturn ==
    /\ cp.pc = "call" /\ ~CopyFails(cp)
    /\ cp' = [pc |-> "done", src |-> cp.src, root |-> cp.root, cfg |-> cp.cfg,
              linkDir |-> cp.linkDir, dest0 |-> cp.dest0, err |-> <<>>,
              copied |-> Walk(cp.src, cp.cfg, <<>>, cp.root),
              dest |-> deepCopy(cp.src, cp.dest0, cp.cfg, cp.root)]
    /\ UNCHANGED <<svars, dep, ser, plat, bld, sgn, rt, cmd, plg, prv, rst>>

\* deepCopy(cfg) returning the error of io.Copy at the link: the entries
\* walked before it are written and the file of the link is created empty
CopyError ==
    /\ cp.pc = "call" /\ CopyFails(cp)
    /\ LET walked == Walk(cp.src, cp.cfg, <<>>, cp.root) \cap WalkedBeforeLink
           link == { p \in DOMAIN cp.src : IsSymlink(p) } IN
       cp' = [pc |-> "done", src |-> cp.src, root |-> cp.root, cfg |-> cp.cfg,
              linkDir |-> cp.linkDir, dest0 |-> cp.dest0, err |-> <<"is a directory">>,
              copied |-> walked \cup link,
              dest |-> [p \in (DOMAIN cp.dest0) \cup walked \cup link |->
                          IF p \in walked THEN cp.src[p]
                          ELSE IF p \in link THEN 0 ELSE cp.dest0[p]]]
    /\ UNCHANGED <<svars, dep, ser, plat, bld, sgn, rt, cmd, plg, prv, rst>>

CopyNext == CopyReturn \/ CopyError

SpecCopy == CopyInit /\ [][CopyNext]_vars

\* The entry or one of the directories above it, the root included
Above(p) == { SubSeq(p, 1, k) : k \in 0..Len(p) }

\* Whether the stated rules filter entry a of the tree walked under root
Filtered(cfg, a, root) ==
    LET name == IF a = <<>> THEN root ELSE a[Len(a)] IN
    \/ cfg.SkipHidden /\ name[1] = "."
    \/ cfg.SkipTestFiles /\ IsDir(a) /\ name = <<"testdata">>
    \/ cfg.SkipTestFiles /\ ~IsDir(a) /\ name[Len(name)] = "_test.go"
    \/ cfg.SkipSymLinks /\ IsSymlink(a)

\* C32: a deepCopy that returns nil has written exactly the source entries
\* that are not filtered and not below a filtered directory, each at the
\* same relative path with the data of the source, and has left the other
\* entries of the destination as they were.
C32_CopiesExactlyUnfiltered ==
    (cp.pc = "done" /\ cp.err = <<>>) =>
        /\ cp.copied = { p \in DOMAIN cp.src :
                           \A a \in Above(p) : ~Filtered(cp.cfg, a, cp.root) }
        /\ \A p \in cp.copied : p \in DOMAIN cp.dest /\ cp.dest[p] = cp.src[p]
        /\ \A p \in (DOMAIN cp.dest) \ cp.copied :
              p \in DOMAIN cp.dest0 /\ cp.dest[p] = cp.dest0[p]

\* A copy with all three filters of a tree that has a hidden directory with
\* a file in it, a test file, a testdata directory and a link
C32_Witness ==
    /\ cp.pc = "done" /\ cp.err = <<>> /\ cp.root = nMaster
    /\ cp.cfg.SkipHidden /\ cp.cfg.SkipSymLinks /\ cp.cfg.SkipTestFiles
    /\ {CaddyDir \o <<nGit, nHead>>, CaddyDir \o <<nRunTest>>, CaddyDir \o <<nLink>>,
        CaddyDir \o <<nTestdata, nInTxt>>, PlugDir \o <<nTestdata>>} \subseteq DOMAIN cp.src
    /\ PlugDir \o <<nTestdata>> \in cp.copied
    /\ CaddyDir \o <<nRunGo>> \in cp.copied

\* ------------------------------------------------------------------------
\* The rollback of one Deploy: RunPluginChecks has returned (true, err),
\* restoreMasterGopath(backupGopath) runs step by step and Deploy returns.
\* rst.master is the directory at be.masterGopath, rst.aside the directory
\* at tmpPath (be.masterGopath + "_tmp_" + suffix), rst.backup the tree at
\* backupGopath, rst.log the file operations done, rst.err2 the error of
\* restoreMasterGopath, rst.err the error of Deploy.
\* ------------------------------------------------------------------------
NoDir == [exists |-> FALSE, tree |-> EmptyTree]
Dir(t) == [exists |-> TRUE, tree |-> t]

\* The master GOPATH after UpdateMasterGopath and the backup taken before it
RestoreMasters ==
    { Updated(Filled(InitialMaster, ps), PluginPackage, h) :
        ps \in {{CaddyPackage}, {CaddyPackage, PluginPackage}}, h \in Handlers }
RestoreBackups ==
    { deepCopy(Filled(InitialMaster, ps), EmptyTree, CopyFlags, nMaster) :
        ps \in {{CaddyPackage}, {CaddyPackage, PluginPackage}} }
CheckErrors == { "go test caddy", "go test caddy: timeout" }

\* Variant of DeployError: the error of the restore replaces that of the checks
DeployErrorRestoreOnly(e, e2) == IF e2 # <<>> THEN e2 ELSE e

\* Deploy: fmt.Errorf("%v; additionally, error restoring GOPATH: %v", err, err2)
\* when the restore failed, else err
DeployError(e, e2) == IF e2 # <<>> THEN e \o <<"additionally">> \o e2 ELSE e

RestoreInit ==
    /\ rst \in [pc : {"restore"}, master0 : RestoreMasters, backup : RestoreBackups,
                checks : CheckErrors]
    /\ UidGid = 0 - 1
    /\ Quiet
    /\ dep = Off /\ ser = Off /\ plat = Off /\ bld = Off /\ sgn = Off
    /\ rt = Off /\ cmd = Off /\ plg = Off /\ prv = Off /\ cp = Off

\* err := os.Rename(be.masterGopath, tmpPath); if err != nil { return err }
RestoreRename ==
    /\ rst.pc = "restore"
    /\ \/ rst' = [pc |-> "renamed", master0 |-> rst.master0, backup |-> rst.backup,
                  checks |-> rst.checks, master |-> NoDir, aside |-> Dir(rst.master0),
                  log |-> <<"rename">>, err2 |-> <<>>]
       \/ rst' = [pc |-> "restored", master0 |-> rst.master0, backup |-> rst.backup,
                  checks |-> rst.checks, master |-> Dir(rst.master0), aside |-> NoDir,
                  log |-> <<>>, err2 |-> <<"rename">>]
    /\ UNCHANGED <<svars, dep, ser, plat, bld, sgn, rt, cmd, plg, prv, cp>>

\* err = deepCopy(tmpdir, be.masterGopath, false, false, true); a failing
\* copy has made nothing, the directory alone or part of the tree
RestoreCopy ==
    /\ rst.pc = "renamed"
    /\ LET whole == deepCopy(rst.backup, EmptyTree, CopyFlags, nBackup) IN
       \/ rst' = [rst EXCEPT !.pc = "copied", !.master = Dir(whole),
                             !.log = Append(@, "copy")]
       \/ \E left \in {NoDir, Dir(EmptyTree),
                       Dir([p \in {<<>>, <<nSrc>>} |-> 0])} :
             rst' = [rst EXCEPT !.pc = "restored", !.master = left,
                                !.log = Append(@, "copy"), !.err2 = <<"copy">>]
    /\ UNCHANGED <<svars, dep, ser, plat, bld, sgn, rt, cmd, plg, prv, cp>>

\* err = os.RemoveAll(tmpPath); return err
RestoreRemove ==
    /\ rst.pc = "copied"
    /\ \/ rst' = [rst EXCEPT !.pc = "restored", !.aside = NoDir,
                             !.log = Append(@, "remove")]
       \/ \E left \in {rst.aside, Dir(EmptyTree)} :
             rst' = [rst EXCEPT !.pc = "restored", !.aside = left,
                                !.log = Append(@, "remove"), !.err2 = <<"remove">>]
    /\ UNCHANGED <<svars, dep, ser, plat, bld, sgn, rt, cmd, plg, prv, cp>>

\* Deploy after restoreMasterGopath: the error it returns
RestoreReturn ==
    /\ rst.pc = "restored"
    /\ rst' = [pc |-> "returned", master0 |-> rst.master0, backup |-> rst.backup,
               checks |-> rst.checks, master |-> rst.master, aside |-> rst.aside,
               log |-> rst.log, err2 |-> rst.err2,
               err |-> DeployError(<<rst.checks>>, rst.err2)]
    /\ UNCHANGED <<svars, dep, ser, plat, bld, sgn, rt, cmd, plg, prv, cp>>

RestoreNext == RestoreRename \/ RestoreCopy \/ RestoreRemove \/ RestoreReturn

SpecRestore == RestoreInit /\ [][RestoreNext]_vars

\* Position of operation o in the log of the restore, 0 if it was not done
DoneAt(o) ==
    IF \E i \in DOMAIN rst.log : rst.log[i] = o
    THEN CHOOSE i \in DOMAIN rst.log : rst.log[i] = o ELSE 0

\* C33: the restore renames, then copies, then removes, and removes only
\* after a copy that succeeded; after a failed rename the master GOPATH is
\* as it was; after a failed copy the renamed original is on disk with its
\* content; and when the restore failed the error of Deploy holds the error
\* of the checks and the error of the restore.
C33_RestoreSteps ==
    rst.pc \in {"restored", "returned"} =>
        /\ DoneAt("copy") > 0 => DoneAt("rename") = 1 /\ DoneAt("copy") = 2
        /\ DoneAt("remove") > 0 =>
              /\ DoneAt("copy") = 2 /\ DoneAt("remove") = 3
              /\ rst.err2 # <<"copy">>
              /\ rst.master = Dir(deepCopy(rst.backup, EmptyTree, CopyFlags, nBackup))
        /\ rst.err2 = <<"rename">> => rst.master = Dir(rst.master0) /\ rst.log = <<>>
        /\ rst.err2 = <<"copy">> => rst.aside = Dir(rst.master0)
        /\ (rst.pc = "returned" /\ rst.err2 # <<>>) =>
              /\ \E i \in DOMAIN rst.err : rst.err[i] = rst.checks
              /\ \E i \in DOMAIN rst.err : <<rst.err[i]>> = rst.err2
        /\ (rst.pc = "returned" /\ rst.err2 = <<>>) => rst.err = <<rst.checks>>

\* Deploy has returned after a restore whose copy failed
C33_Witness ==
    /\ rst.pc = "returned"
    /\ rst.err2 = <<"copy">>
    /\ rst.log = <<"rename", "copy">>
    /\ rst.aside.exists /\ ~rst.master.exists

====
